---- MODULE Spec2Model ----
(***************************************************************************)
(* Follow-up question generation for the financial advisory assistant.     *)
(*                                                                         *)
(* The repository holds several variants of the follow-up agent.  This     *)
(* module models                                                           *)
(*   - the prompt builder of the LLM-first agent                           *)
(*     (src/FollowUpAgent/followUpAgent.py, FollowUpAgent),                *)
(*   - the two response parsers (FollowUpResponseParser.parse and          *)
(*     parse_follow_up_response),                                          *)
(*   - the question validator of the template-first agent,                 *)
(*   - the generator strategies and the execute_agent / process handlers.  *)
(*                                                                         *)
(* A text is a sequence of characters.  In the parser models a character   *)
(* is a one-character string; in the prompt model, where only the origin   *)
(* and the position of a character matter, a character is a pair           *)
(* <<section, index>>.                                                     *)
(***************************************************************************)
EXTENDS Integers, Sequences, FiniteSets, TLC

VARIABLES
    pc,                     \* position of the handler under study
    system_text,            \* the imported prompt constants rendered into the static section
    agent_request,          \* [history, query] of the AgentSystemRequest
    truncated,              \* result of _truncate_history_to_fit_prompt
    prompt,                 \* result of _build_followup_prompt
    given,                  \* how the backend's response was composed
    llm_response,           \* the text the backend returned
    questions,              \* result of parse_follow_up_response
    parsed,                 \* result of FollowUpResponseParser.parse
    agent_response,         \* state.agent_response of the LLM-first agent
    candidates,             \* the batch handed to _validate_follow_up_questions
    valid,                  \* result of _validate_follow_up_questions
    new_questions,          \* the candidates handed to _filter_duplicate_questions
    conversation_history,   \* agent_state["conversation_history"]
    filtered_questions,     \* result of _filter_duplicate_questions
    refiltered_questions,   \* result of filtering filtered_questions again
    agent_state,            \* the dict handed to FollowUpAgent.process
    generator,              \* self.generator_strategy
    max_questions,          \* self.max_questions
    sent_prompt,            \* the prompt handed to llm_handler.generate_response
    handler_response,       \* what llm_handler.generate_response did
    process_result,         \* what FollowUpAgent.process returned or raised
    mock_agent_state,\* the AgentState handed to the template-first agent
    llm_service,    \* what llm_service.generate_response does
    additional_context,\* result of _extract_additional_context
    updated_state,  \* what the template-first execute_agent returned or raised
    follow_up_context,      \* the context handed to _generate_follow_up_questions
    template_result,        \* what generate_follow_up_questions returned for that context
    follow_up_outcome,      \* what _generate_follow_up_questions returned
    backend_calls,          \* the prompts llm_service.generate_response was called with
    given_states,   \* the agent state each concurrent invocation was handed
    request_states, \* those dicts as they are now
    shared_generator,\* the generator strategy the invocations share
    frames          \* the position and the locals of each invocation

vars == <<pc, system_text, agent_request, truncated, prompt,
          given, llm_response, questions, parsed, agent_response,
          candidates, valid,
          new_questions, conversation_history, filtered_questions, refiltered_questions,
          agent_state, generator, max_questions, sent_prompt, handler_response, process_result,
          mock_agent_state, llm_service, additional_context, updated_state,
          follow_up_context, template_result, follow_up_outcome, backend_calls,
          given_states, request_states, shared_generator, frames>>

promptVars == <<system_text, agent_request, truncated, prompt>>
responseVars == <<given, llm_response, questions, parsed, agent_response>>
validationVars == <<candidates, valid>>
dedupeVars == <<new_questions, conversation_history, filtered_questions, refiltered_questions>>
strategyVars == <<agent_state, generator, max_questions, sent_prompt, handler_response, process_result>>
templateVars == <<mock_agent_state, llm_service, additional_context, updated_state,
                  follow_up_context, template_result, follow_up_outcome, backend_calls>>
concurrentVars == <<given_states, request_states, shared_generator, frames>>

Null == <<"null">>

(***************************************************************************)
(* Generic sequence helpers (Python slicing).                              *)
(***************************************************************************)
Min(a, b) == IF a <= b THEN a ELSE b
Max(a, b) == IF a >= b THEN a ELSE b

\* s[:n] for n >= 0
Take(s, n) == SubSeq(s, 1, Min(n, Len(s)))

\* s[-n:] for n > 0
LastN(s, n) == SubSeq(s, Max(1, Len(s) - n + 1), Len(s))

\* s[n:] for n >= 0 (0-based n)
Drop(s, n) == SubSeq(s, n + 1, Len(s))

\* x = v; F(x): v is evaluated once and F applied to its value
With(v, F(_)) == CHOOSE y \in {F(x) : x \in {v}} : TRUE

(***************************************************************************)
(* Prompt builder of the LLM-first agent.                                  *)
(***************************************************************************)
MAX_PROMPT_CHARS == 10000

\* Characters of the static f-string that do not come from the imported
\* constants ARTH_SYSTEM_PROMPT, USER_PORTFOLIO_SCHEMA and
\* MUTUAL_FUND_CATEGORY_INFO_SCHEMA (followUpAgent.py lines 77-87).
StaticFixedLen == 211

\* Characters of the trailing f-string before the query ("\n\n## User Query:\n")
TailBeforeQueryLen == 17

\* Characters of the trailing f-string after the query (the instructions)
TailAfterQueryLen == 389

\* A text of n characters, all from one section, each tagged with its position.
Text(section, n) == [i \in 1..n |-> <<section, i>>]

\* static_prompt: the fixed text with the imported constants rendered in
StaticPrompt(sys) == Text("static", StaticFixedLen + Len(sys))

\* the f-string appended after the history: query heading, query, instructions
TailPrompt(query) ==
    Text("heading", TailBeforeQueryLen) \o query \o Text("instructions", TailAfterQueryLen)

\* Variant that keeps the oldest characters of the history.
TruncateKeepingOldest(static_prompt, history) ==
    LET available == MAX_PROMPT_CHARS - Len(static_prompt)
    IN  IF available <= 0 THEN <<>>
        ELSE IF Len(history) > available THEN Take(history, available)
        ELSE history

_truncate_history_to_fit_prompt(static_prompt, history) ==
    LET available == MAX_PROMPT_CHARS - Len(static_prompt)
    IN  IF available <= 0 THEN <<>>
        ELSE IF Len(history) > available THEN LastN(history, available)
        ELSE history

\* Variant without the final hard cut.
BuildWithoutHardCut(sys, request) ==
    LET static_prompt == StaticPrompt(sys)
        truncated_history ==
            _truncate_history_to_fit_prompt(static_prompt, request.history)
    IN  static_prompt \o truncated_history \o TailPrompt(request.query)

_build_followup_prompt(sys, request) ==
    LET static_prompt == StaticPrompt(sys)
        truncated_history == _truncate_history_to_fit_prompt(static_prompt, request.history)
        p == static_prompt \o truncated_history \o TailPrompt(request.query)
    IN  IF Len(p) > MAX_PROMPT_CHARS THEN Take(p, MAX_PROMPT_CHARS) ELSE p

(***************************************************************************)
(* Character strings.  A backend response is a string; Ch(s, i) is its     *)
(* i-th character (a one-character string).                                *)
(***************************************************************************)
Ch(s, i) == SubSeq(s, i, i)

UpperLetters == "ABCDEFGHIJKLMNOPQRSTUVWXYZ"
LowerLetters == "abcdefghijklmnopqrstuvwxyz"
Upper == {Ch(UpperLetters, i) : i \in 1..26}
Digit == {"0", "1", "2", "3", "4", "5", "6", "7", "8", "9"}

\* str.strip() and the regex class \s
Whitespace == {" ", "\t", "\n", "\r"}

\* str.lower() on one character
LowerChar(c) ==
    IF c # "" /\ c \in Upper
    THEN Ch(LowerLetters, CHOOSE i \in 1..26 : Ch(UpperLetters, i) = c)
    ELSE c

\* the least and the greatest element of a non-empty set of integers
Least(I) == CHOOSE i \in I : \A j \in I : i <= j
Greatest(I) == CHOOSE i \in I : \A j \in I : j <= i

\* s.lower(), halving s so that the evaluation stays shallow
RECURSIVE Lower(_)
Lower(s) ==
    IF Len(s) <= 1 THEN LowerChar(s)
    ELSE With(Len(s) \div 2, LAMBDA h :
             Lower(SubSeq(s, 1, h)) \o Lower(SubSeq(s, h + 1, Len(s))))

\* s.strip(chars)
StripChars(s, cs) ==
    With({i \in 1..Len(s) : Ch(s, i) \notin cs}, LAMBDA I :
        IF I = {} THEN "" ELSE SubSeq(s, Least(I), Greatest(I)))

\* s.strip()
Strip(s) == StripChars(s, Whitespace)

StartsWith(s, p) == Len(s) >= Len(p) /\ SubSeq(s, 1, Len(p)) = p
EndsWith(s, p) == Len(s) >= Len(p) /\ SubSeq(s, Len(s) - Len(p) + 1, Len(s)) = p

\* the least index i >= from with s[i] in cs, or 0
FirstIn(s, cs, from) ==
    With({i \in from..Len(s) : Ch(s, i) \in cs}, LAMBDA I :
        IF I = {} THEN 0 ELSE Least(I))

\* the greatest index i with s[i] in cs, or 0
LastIn(s, cs, upto) ==
    With({i \in 1..upto : Ch(s, i) \in cs}, LAMBDA I :
        IF I = {} THEN 0 ELSE Greatest(I))

\* the least index i >= from with s[i] not in cs, or Len(s) + 1
SkipIn(s, cs, from) ==
    With({i \in from..Len(s) : Ch(s, i) \notin cs}, LAMBDA I :
        IF I = {} THEN Max(from, Len(s) + 1) ELSE Least(I))

\* s.splitlines(): the lines of s without their line breaks
RECURSIVE SplitLines(_)
SplitLines(s) ==
    IF s = "" THEN <<>>
    ELSE With(FirstIn(s, {"\n", "\r"}, 1), LAMBDA k :
             IF k = 0 THEN <<s>>
             ELSE With(IF Ch(s, k) = "\r" /\ k < Len(s) /\ Ch(s, k + 1) = "\n"
                       THEN k + 1 ELSE k,
                       LAMBDA brk :
                           With(SubSeq(s, brk + 1, Len(s)), LAMBDA rest :
                               <<SubSeq(s, 1, k - 1)>> \o SplitLines(rest))))

\* s.split("\n")
RECURSIVE SplitNewline(_)
SplitNewline(s) ==
    With(FirstIn(s, {"\n"}, 1), LAMBDA k :
        IF k = 0 THEN <<s>>
        ELSE With(SubSeq(s, k + 1, Len(s)), LAMBDA rest :
                 <<SubSeq(s, 1, k - 1)>> \o SplitNewline(rest)))

Elems(xs) == {xs[i] : i \in 1..Len(xs)}

(***************************************************************************)
(* json.loads, as both parsers call it.  A decoded value is a record with  *)
(* a type tag t: "str" (v the text), "list" (v the items), "dict" (v the   *)
(* key/value pairs in source order), "num", "bool" or "none".  A scan      *)
(* returns [ok, val, end], end being the index after the value; JsonFail   *)
(* stands for json.JSONDecodeError and JsonRaise(e) for another exception  *)
(* raised while decoding.  The escapes \b, \f and \uXXXX decode to         *)
(* characters outside the alphabet of the modelled responses and are not   *)
(* decoded here.                                                           *)
(***************************************************************************)
JsonFail == [ok |-> FALSE, error |-> "JSONDecodeError"]
JsonRaise(e) == [ok |-> FALSE, error |-> e]
JsonOk(v, e) == [ok |-> TRUE, val |-> v, end |-> e]

JsonWhitespace == {" ", "\t", "\n", "\r"}
JsonControl == {"\t", "\n", "\r"}

JsonUnescape(e) ==
    CASE e = "\"" -> "\""
      [] e = "\\" -> "\\"
      [] e = "/"  -> "/"
      [] e = "n"  -> "\n"
      [] e = "t"  -> "\t"
      [] e = "r"  -> "\r"
      [] OTHER    -> ""

\* the text at s[i..] starts with lit
LitAt(s, i, lit) == SubSeq(s, i, Min(Len(s), i + Len(lit) - 1)) = lit

\* py_scanstring (strict): i is the index after the opening quote (or after
\* the last escape), acc the text decoded so far.  The scan runs over plain
\* characters up to the next quote, backslash or control character.
RECURSIVE ScanString(_, _, _)
ScanString(s, i, acc) ==
    With(FirstIn(s, {"\"", "\\"} \cup JsonControl, i), LAMBDA k :
        IF k = 0 THEN JsonFail
        ELSE With(acc \o SubSeq(s, i, k - 1), LAMBDA text :
            IF Ch(s, k) = "\"" THEN JsonOk([t |-> "str", v |-> text], k + 1)
            ELSE IF Ch(s, k) = "\\"
                 THEN IF k + 1 > Len(s) \/ JsonUnescape(Ch(s, k + 1)) = ""
                      THEN JsonFail
                      ELSE With(text \o JsonUnescape(Ch(s, k + 1)), LAMBDA decoded :
                               ScanString(s, k + 2, decoded))
            ELSE JsonFail))

\* NUMBER_RE = (-?(?:0|[1-9]\d*))(\.\d+)?([eE][-+]?\d+)? matched at i:
\* the index after the match, or 0 when there is none
ScanNumber(s, i) ==
    LET d0 == IF Ch(s, i) = "-" THEN i + 1 ELSE i
        intEnd == IF d0 > Len(s) \/ Ch(s, d0) \notin Digit THEN 0
                  ELSE IF Ch(s, d0) = "0" THEN d0 + 1
                  ELSE SkipIn(s, Digit, d0)
        fracEnd == IF intEnd # 0 /\ intEnd < Len(s) /\ Ch(s, intEnd) = "."
                      /\ Ch(s, intEnd + 1) \in Digit
                   THEN SkipIn(s, Digit, intEnd + 1) ELSE intEnd
        e0 == IF fracEnd # 0 /\ fracEnd <= Len(s) /\ Ch(s, fracEnd) \in {"e", "E"}
              THEN (IF fracEnd < Len(s) /\ Ch(s, fracEnd + 1) \in {"-", "+"}
                    THEN fracEnd + 2 ELSE fracEnd + 1)
              ELSE 0
        expEnd == IF e0 # 0 /\ e0 <= Len(s) /\ Ch(s, e0) \in Digit
                  THEN SkipIn(s, Digit, e0) ELSE fracEnd
    IN  expEnd

\* the integer part of the number at i: the index after it
IntegerEnd(s, i) ==
    LET d0 == IF Ch(s, i) = "-" THEN i + 1 ELSE i
    IN  IF Ch(s, d0) = "0" THEN d0 + 1 ELSE SkipIn(s, Digit, d0)

\* sys.int_info.default_max_str_digits: int() of a longer numeral raises
\* ValueError (CPython 3.11 and the security releases of 3.7 to 3.10)
MaxStrDigits == 4300

\* parse_int(integer) when the match has no fraction and no exponent,
\* parse_float otherwise
NumberAt(s, i) ==
    With(<<ScanNumber(s, i), IntegerEnd(s, i)>>, LAMBDA e :
        IF e[1] = e[2] /\ e[2] - (IF Ch(s, i) = "-" THEN i + 1 ELSE i) > MaxStrDigits
        THEN JsonRaise("ValueError")
        ELSE JsonOk([t |-> "num"], e[1]))

RECURSIVE ScanOnce(_, _)
RECURSIVE ScanArrayItems(_, _, _)
RECURSIVE ScanObjectItems(_, _, _)

\* JSONArray: i is the index after "["
ScanArray(s, i) ==
    With(SkipIn(s, JsonWhitespace, i), LAMBDA j :
        IF j <= Len(s) /\ Ch(s, j) = "]" THEN JsonOk([t |-> "list", v |-> <<>>], j + 1)
        ELSE ScanArrayItems(s, j, <<>>))

ScanArrayItems(s, j, acc) ==
    With(ScanOnce(s, j), LAMBDA r :
        IF ~r.ok THEN r
        ELSE With(<<SkipIn(s, JsonWhitespace, r.end), Append(acc, r.val)>>, LAMBDA ki :
                 LET k == ki[1]
                     items == ki[2]
                 IN  IF k > Len(s) THEN JsonFail
                     ELSE IF Ch(s, k) = "]" THEN JsonOk([t |-> "list", v |-> items], k + 1)
                     ELSE IF Ch(s, k) = ","
                          THEN With(SkipIn(s, JsonWhitespace, k + 1), LAMBDA next :
                                   ScanArrayItems(s, next, items))
                     ELSE JsonFail))

\* JSONObject: i is the index after "{"
ScanObject(s, i) ==
    With(SkipIn(s, JsonWhitespace, i), LAMBDA j :
        IF j <= Len(s) /\ Ch(s, j) = "}" THEN JsonOk([t |-> "dict", v |-> <<>>], j + 1)
        ELSE ScanObjectItems(s, j, <<>>))

\* j is the index where a key's opening quote is expected
ScanObjectItems(s, j, acc) ==
    IF j > Len(s) \/ Ch(s, j) # "\"" THEN JsonFail
    ELSE With(ScanString(s, j + 1, ""), LAMBDA key :
        IF ~key.ok THEN JsonFail
        ELSE With(SkipIn(s, JsonWhitespace, key.end), LAMBDA c :
            IF c > Len(s) \/ Ch(s, c) # ":" THEN JsonFail
            ELSE With(SkipIn(s, JsonWhitespace, c + 1), LAMBDA vstart :
                With(ScanOnce(s, vstart), LAMBDA r :
                    IF ~r.ok THEN r
                    ELSE With(<<SkipIn(s, JsonWhitespace, r.end),
                                Append(acc, <<key.val.v, r.val>>)>>, LAMBDA kp :
                             LET k == kp[1]
                                 pairs == kp[2]
                             IN  IF k > Len(s) THEN JsonFail
                                 ELSE IF Ch(s, k) = "}"
                                      THEN JsonOk([t |-> "dict", v |-> pairs], k + 1)
                                 ELSE IF Ch(s, k) = ","
                                      THEN With(SkipIn(s, JsonWhitespace, k + 1),
                                                LAMBDA next : ScanObjectItems(s, next, pairs))
                                 ELSE JsonFail)))))

\* scanner.py_make_scanner._scan_once
ScanOnce(s, i) ==
    IF i > Len(s) THEN JsonFail
    ELSE LET c == Ch(s, i)
         IN  IF c = "\"" THEN ScanString(s, i + 1, "")
             ELSE IF c = "{" THEN ScanObject(s, i + 1)
             ELSE IF c = "[" THEN ScanArray(s, i + 1)
             ELSE IF LitAt(s, i, "null") THEN JsonOk([t |-> "none"], i + 4)
             ELSE IF LitAt(s, i, "true") THEN JsonOk([t |-> "bool"], i + 4)
             ELSE IF LitAt(s, i, "false") THEN JsonOk([t |-> "bool"], i + 5)
             ELSE IF ScanNumber(s, i) # 0 THEN NumberAt(s, i)
             ELSE IF LitAt(s, i, "NaN") THEN JsonOk([t |-> "num"], i + 3)
             ELSE IF LitAt(s, i, "Infinity") THEN JsonOk([t |-> "num"], i + 8)
             ELSE IF LitAt(s, i, "-Infinity") THEN JsonOk([t |-> "num"], i + 9)
             ELSE JsonFail

\* json.loads(s): one value, surrounded by nothing but whitespace
JsonLoads(s) ==
    With(SkipIn(s, JsonWhitespace, 1), LAMBDA start :
        With(ScanOnce(s, start), LAMBDA r :
            IF ~r.ok \/ SkipIn(s, JsonWhitespace, r.end) = Len(s) + 1 THEN r ELSE JsonFail))

IsStr(x) == x.t = "str"
IsList(x) == x.t = "list"
IsDict(x) == x.t = "dict"

\* the texts of a decoded list all of whose items are strings
StrItems(items) == [i \in 1..Len(items) |-> items[i].v]

\* "key" in data, for a decoded dict
DictHas(d, key) == \E i \in 1..Len(d.v) : d.v[i][1] = key

\* data[key]: a later pair with the same key overrides an earlier one
DictGet(d, key) ==
    LET I == {i \in 1..Len(d.v) : d.v[i][1] = key}
    IN  d.v[CHOOSE i \in I : \A j \in I : j <= i][2]

(***************************************************************************)
(* FollowUpResponseParser.parse (LLM-first agent).                         *)
(***************************************************************************)
NO_FOLLOW_UP_SENTINEL == "no follow-up needed"

ParseResult(qs, none) == [questions |-> qs, no_follow_up_needed |-> none]

IsNonBlankStr(x) == IsStr(x) /\ Strip(x.v) # ""

\* [q for q in items if isinstance(q, str) and q.strip()]
NonBlankStrings(items) == StrItems(SelectSeq(items, IsNonBlankStr))

\* l.strip("- ")
StripBullet(l) == StripChars(l, {"-", " "})

IsNonBlankLine(l) == Strip(l) # ""
IsQuestionLine(l) == EndsWith(l, "?")

\* the except branch: lines of a numbered or bulleted list that end with "?"
LineQuestions(response) ==
    With(SelectSeq(SplitLines(response), IsNonBlankLine), LAMBDA kept :
        SelectSeq([i \in 1..Len(kept) |-> StripBullet(kept[i])], IsQuestionLine))

\* Variant that compares the sentinel without lower-casing the response.
ParseCaseSensitiveSentinel(text) ==
    With(Strip(text), LAMBDA response :
        IF StartsWith(response, NO_FOLLOW_UP_SENTINEL)
        THEN ParseResult(<<>>, TRUE)
        ELSE With(JsonLoads(response), LAMBDA data :
            IF data.ok
            THEN IF IsDict(data.val) /\ DictHas(data.val, "questions")
                      /\ IsList(DictGet(data.val, "questions"))
                 THEN ParseResult(NonBlankStrings(DictGet(data.val, "questions").v), FALSE)
                 ELSE IF IsList(data.val)
                 THEN ParseResult(NonBlankStrings(data.val.v), FALSE)
                 ELSE ParseResult(<<>>, TRUE)
            ELSE With(LineQuestions(response), LAMBDA found :
                     IF found # <<>>
                     THEN ParseResult(found, FALSE)
                     ELSE ParseResult(<<>>, TRUE))))

\* Variant whose line fallback reports the questions it found together with
\* no_follow_up_needed = True.
ParseFlaggingFoundLines(text) ==
    With(Strip(text), LAMBDA response :
        IF StartsWith(Lower(response), NO_FOLLOW_UP_SENTINEL)
        THEN ParseResult(<<>>, TRUE)
        ELSE With(JsonLoads(response), LAMBDA data :
            IF data.ok
            THEN IF IsDict(data.val) /\ DictHas(data.val, "questions")
                      /\ IsList(DictGet(data.val, "questions"))
                 THEN ParseResult(NonBlankStrings(DictGet(data.val, "questions").v), FALSE)
                 ELSE IF IsList(data.val)
                 THEN ParseResult(NonBlankStrings(data.val.v), FALSE)
                 ELSE ParseResult(<<>>, TRUE)
            ELSE ParseResult(LineQuestions(response), TRUE)))

FollowUpResponseParser_parse(text) ==
    With(Strip(text), LAMBDA response :
        IF StartsWith(Lower(response), NO_FOLLOW_UP_SENTINEL)
        THEN ParseResult(<<>>, TRUE)
        ELSE With(JsonLoads(response), LAMBDA data :
            IF data.ok
            THEN IF IsDict(data.val) /\ DictHas(data.val, "questions")
                      /\ IsList(DictGet(data.val, "questions"))
                 THEN ParseResult(NonBlankStrings(DictGet(data.val, "questions").v), FALSE)
                 ELSE IF IsList(data.val)
                 THEN ParseResult(NonBlankStrings(data.val.v), FALSE)
                 ELSE ParseResult(<<>>, TRUE)
            ELSE With(LineQuestions(response), LAMBDA found :
                     IF found # <<>>
                     THEN ParseResult(found, FALSE)
                     ELSE ParseResult(<<>>, TRUE))))

(***************************************************************************)
(* parse_follow_up_response (prompt module of the strategy-based agent).   *)
(***************************************************************************)
NoMatch == [ok |-> FALSE]
Match(from, to) == [ok |-> TRUE, from |-> from, to |-> to]

\* re.search(r'\[[\s\S]*\]'): from the first "[" to the last "]"
JsonArraySpan(s) ==
    LET a == FirstIn(s, {"["}, 1)
        b == LastIn(s, {"]"}, Len(s))
    IN  IF a # 0 /\ b > a THEN Match(a, b) ELSE NoMatch

\* (?:\d+[\.\)]\s*|["\'*-]\s*) at p: the index after it, or 0
MarkerEnd(s, p) ==
    IF p > Len(s) THEN 0
    ELSE IF Ch(s, p) \in Digit
         THEN LET e == SkipIn(s, Digit, p)
              IN  IF e <= Len(s) /\ Ch(s, e) \in {".", ")"}
                  THEN SkipIn(s, Whitespace, e + 1) ELSE 0
    ELSE IF Ch(s, p) \in {"\"", "'", "*", "-"} THEN SkipIn(s, Whitespace, p + 1)
    ELSE 0

\* (.*?\?) at q: up to the first "?" of the line
QuestionSpan(s, q) ==
    LET j == FirstIn(s, {"?", "\n"}, q)
    IN  IF q # 0 /\ j # 0 /\ Ch(s, j) = "?" THEN Match(q, j) ELSE NoMatch

\* numbered_pattern tried at scan position p
NumberedAt(s, p) ==
    LET atStart == IF p = 1 THEN QuestionSpan(s, MarkerEnd(s, p)) ELSE NoMatch
    IN  IF atStart.ok THEN atStart
        ELSE IF Ch(s, p) = "\n" THEN QuestionSpan(s, MarkerEnd(s, p + 1))
        ELSE NoMatch

\* re.findall(numbered_pattern, s), scanning from p
RECURSIVE FindNumbered(_, _)
FindNumbered(s, p) ==
    With({q \in p..Len(s) : NumberedAt(s, q).ok}, LAMBDA starts :
        IF starts = {} THEN <<>>
        ELSE With(NumberedAt(s, Least(starts)), LAMBDA m :
                 <<SubSeq(s, m.from, m.to)>> \o FindNumbered(s, m.to + 1)))

\* question_pattern ([A-Z][^.!?]*?\?) tried at scan position p
SentenceAt(s, p) ==
    LET j == FirstIn(s, {".", "!", "?"}, p + 1)
    IN  IF Ch(s, p) \in Upper /\ j # 0 /\ Ch(s, j) = "?" THEN Match(p, j) ELSE NoMatch

\* re.findall(question_pattern, s), scanning from p
RECURSIVE FindSentences(_, _)
FindSentences(s, p) ==
    With({q \in p..Len(s) : SentenceAt(s, q).ok}, LAMBDA starts :
        IF starts = {} THEN <<>>
        ELSE With(SentenceAt(s, Least(starts)), LAMBDA m :
                 <<SubSeq(s, m.from, m.to)>> \o FindSentences(s, m.to + 1)))

\* q.strip('"\'').strip()
CleanQuestion(q) == Strip(StripChars(q, {"\"", "'"}))

\* the clean-up loop: cleaned, non-empty, first occurrence only
RECURSIVE CleanQuestions(_, _)
CleanQuestions(qs, acc) ==
    IF qs = <<>> THEN acc
    ELSE With(CleanQuestion(Head(qs)), LAMBDA cleaned :
             With(IF cleaned # "" /\ cleaned \notin Elems(acc)
                  THEN Append(acc, cleaned) ELSE acc,
                  LAMBDA kept : CleanQuestions(Tail(qs), kept)))

\* the regex fallback of parse_follow_up_response
PatternQuestions(s) ==
    With(FindNumbered(s, 1), LAMBDA numbered :
        With(IF numbered # <<>> THEN numbered ELSE FindSentences(s, 1), LAMBDA found :
            CleanQuestions(found, <<>>)))

\* Variant that passes the decoded array through the pattern clean-up
\* (strip and de-duplicate).
ParseCleaningDecodedArray(llm_text) ==
    With(JsonArraySpan(llm_text), LAMBDA span :
        With(IF span.ok THEN JsonLoads(SubSeq(llm_text, span.from, span.to)) ELSE JsonFail,
             LAMBDA data :
                 IF data.ok /\ IsList(data.val)
                            /\ \A i \in 1..Len(data.val.v) : IsStr(data.val.v[i])
                 THEN CleanQuestions(StrItems(data.val.v), <<>>)
                 ELSE PatternQuestions(llm_text)))

\* the exception that escapes parse_follow_up_response, "" when none does:
\* only json.JSONDecodeError is caught around json.loads
parse_follow_up_response_raises(llm_text) ==
    With(JsonArraySpan(llm_text), LAMBDA span :
        With(IF span.ok THEN JsonLoads(SubSeq(llm_text, span.from, span.to)) ELSE JsonFail,
             LAMBDA data :
                 IF ~data.ok /\ data.error # "JSONDecodeError" THEN data.error ELSE ""))

\* what parse_follow_up_response returns when no exception escapes it
parse_follow_up_response(llm_text) ==
    With(JsonArraySpan(llm_text), LAMBDA span :
        With(IF span.ok THEN JsonLoads(SubSeq(llm_text, span.from, span.to)) ELSE JsonFail,
             LAMBDA data :
                 IF data.ok /\ IsList(data.val)
                            /\ \A i \in 1..Len(data.val.v) : IsStr(data.val.v[i])
                 THEN StrItems(data.val.v)
                 ELSE PatternQuestions(llm_text)))

(***************************************************************************)
(* execute_agent of the LLM-first agent: build the prompt, call the        *)
(* backend, parse, store the outcome on state.agent_response.  backend is  *)
(* what llm_service.chat did: [raised |-> TRUE] or [raised |-> FALSE,      *)
(* text |-> the returned text].                                            *)
(***************************************************************************)
EmptyDict == [k \in {} |-> Null]

\* d[k] = v
SetKey(d, k, v) == [x \in DOMAIN d \cup {k} |-> IF x = k THEN v ELSE d[x]]

StoreFollowUp(d, qs, needed, message) ==
    SetKey(SetKey(SetKey(d, "follow_up_questions", qs), "follow_up_needed", needed),
           "message", message)

execute_agent(response_dict, backend) ==
    IF backend.raised
    THEN StoreFollowUp(response_dict, <<>>, FALSE,
                       "Sorry, I couldn't generate follow-up questions at this time.")
    ELSE LET result == FollowUpResponseParser_parse(backend.text)
         IN  IF result.no_follow_up_needed
             THEN StoreFollowUp(response_dict, <<>>, FALSE, "No follow-up needed.")
             ELSE StoreFollowUp(response_dict, result.questions, TRUE,
                                "Follow-up questions generated.")

(***************************************************************************)
(* _validate_follow_up_questions (template-first agent): the batch gate.   *)
(***************************************************************************)
\* lambda q: len(q) > 10
MinQuestionChars == 10
\* lambda q: len(questions) <= 3
MaxValidQuestions == 3
\* max_questions: int = 3
DefaultMaxQuestions == 3

\* Variant that accepts a question of exactly the minimum length.
ValidateAcceptingMinLength(qs) ==
    IF qs = <<>> THEN FALSE
    ELSE \A i \in 1..Len(qs) :
             /\ Len(qs[i]) >= MinQuestionChars
             /\ EndsWith(qs[i], "?")
             /\ Len(qs) <= MaxValidQuestions

_validate_follow_up_questions(qs) ==
    IF qs = <<>> THEN FALSE
    ELSE \A i \in 1..Len(qs) :
             /\ Len(qs[i]) > MinQuestionChars
             /\ EndsWith(qs[i], "?")
             /\ Len(qs) <= MaxValidQuestions

(***************************************************************************)
(* _filter_duplicate_questions (LLMBasedFollowUpGenerator).  A history     *)
(* entry is a dict; only entries with a "follow_up_questions" key count.   *)
(***************************************************************************)
RECURSIVE PreviousQuestions(_)
PreviousQuestions(history) ==
    IF history = <<>> THEN <<>>
    ELSE (IF "follow_up_questions" \in DOMAIN Head(history)
          THEN Head(history)["follow_up_questions"]
          ELSE <<>>) \o PreviousQuestions(Tail(history))

\* any(q.lower() == question.lower() for q in previous_questions)
AskedBefore(question, previous_questions) ==
    \E i \in 1..Len(previous_questions) :
        Lower(previous_questions[i]) = Lower(question)

\* Variant that removes from the list it iterates over, so the candidate
\* after a removed one is skipped.
RECURSIVE RemoveWhileIterating(_, _, _)
RemoveWhileIterating(qs, i, previous_questions) ==
    IF i > Len(qs) THEN qs
    ELSE IF AskedBefore(qs[i], previous_questions)
    THEN RemoveWhileIterating(SubSeq(qs, 1, i - 1) \o SubSeq(qs, i + 1, Len(qs)),
                              i + 1, previous_questions)
    ELSE RemoveWhileIterating(qs, i + 1, previous_questions)

FilterRemovingWhileIterating(candidate_questions, history) ==
    RemoveWhileIterating(candidate_questions, 1, PreviousQuestions(history))

_filter_duplicate_questions(candidate_questions, history) ==
    With(PreviousQuestions(history), LAMBDA previous_questions :
        SelectSeq(candidate_questions,
                  LAMBDA question : ~AskedBefore(question, previous_questions)))

(***************************************************************************)
(* Backend responses.  A response is composed from a description           *)
(*   [kind, items, pre, post, fmt, indent]                                 *)
(* which the state keeps in `given`, so that a property can speak of what  *)
(* the response was made of:                                               *)
(*   array     a JSON array of the strings items, in layout fmt            *)
(*   wrapped   such an array between the prose pre and post                *)
(*   object    {"questions": <array>}                                      *)
(*   marked    the introductory line pre, then one line per item:          *)
(*             indent, an enumeration marker of style fmt, the item        *)
(*   prose     the sentences items, separated by single spaces             *)
(*   sentinel  pre, the phrase items[1], post                              *)
(*   raw       the text items[1]                                           *)
(***************************************************************************)
RECURSIVE Join(_, _)
Join(xs, sep) ==
    IF xs = <<>> THEN ""
    ELSE IF Len(xs) = 1 THEN xs[1]
    ELSE xs[1] \o sep \o Join(Tail(xs), sep)

\* json.dumps of one string: quotes, backslashes and control characters escaped
RECURSIVE JsonEscape(_)
JsonEscape(s) ==
    IF s = "" THEN ""
    ELSE LET c == Ch(s, 1)
         IN  (CASE c = "\"" -> "\\\""
                [] c = "\\" -> "\\\\"
                [] c = "\n" -> "\\n"
                [] c = "\t" -> "\\t"
                [] c = "\r" -> "\\r"
                [] OTHER    -> c) \o JsonEscape(Tail(s))

JsonString(s) == "\"" \o JsonEscape(s) \o "\""

\* a JSON array of strings: json.dumps(items) with the separators "," or
\* ", ", or with indent=2
JsonArrayText(items, fmt) ==
    LET strs == [i \in 1..Len(items) |-> JsonString(items[i])]
    IN  IF items = <<>> THEN "[]"
        ELSE IF fmt = "compact" THEN "[" \o Join(strs, ",") \o "]"
        ELSE IF fmt = "indented" THEN "[\n  " \o Join(strs, ",\n  ") \o "\n]"
        ELSE "[" \o Join(strs, ", ") \o "]"

Marker(style, n) ==
    CASE style = "dot"   -> Ch("123456789", n) \o ". "
      [] style = "paren" -> Ch("123456789", n) \o ") "
      [] style = "dash"  -> "- "
      [] style = "star"  -> "* "
      [] style = "quote" -> "\""

MarkedLines(g) ==
    [i \in 1..Len(g.items) |-> g.indent \o Marker(g.fmt, i) \o g.items[i]]

Render(g) ==
    CASE g.kind = "array"    -> JsonArrayText(g.items, g.fmt)
      [] g.kind = "wrapped"  -> g.pre \o JsonArrayText(g.items, g.fmt) \o g.post
      [] g.kind = "object"   -> "{\"questions\": " \o JsonArrayText(g.items, g.fmt) \o "}"
      [] g.kind = "marked"   -> g.pre \o "\n" \o Join(MarkedLines(g), "\n")
      [] g.kind = "prose"    -> Join(g.items, " ")
      [] g.kind = "sentinel" -> g.pre \o g.items[1] \o g.post
      [] g.kind = "raw"      -> g.items[1]
      [] g.kind = "numeral"  -> g.pre \o "[" \o g.items[1] \o "]" \o g.post

Given(kind, items, pre, post, fmt, indent) ==
    [kind |-> kind, items |-> items, pre |-> pre, post |-> post, fmt |-> fmt,
     indent |-> indent]

\* the sequences over S of length at most n
SeqsUpTo(S, n) == UNION {[1..k -> S] : k \in 0..n}

Distinct(xs) == \A i, j \in 1..Len(xs) : i # j => xs[i] # xs[j]

\* most questions one response carries
MaxItems == 4
\* most questions of a response that is wrapped in prose, marked or prose
MaxShort == 2
\* most sentences of a prose response
MaxSentences == 3

ArrayPool == {"Why?", "how so?", "Is \"x\" ok?", " a]? "}
ShortPool == {"Why now?", "how so?"}
BodyPool == {"Why now?", "How so?", "Note this"}
Statements == {"Sure.", "I can help!"}
QuestionSentences == {"What is it?", "How long?"}

ProsePrefixes == {"", "Sure: ", "See [1] ", "Here you go:\n"}
ProseSuffixes == {"", " Done.", " :]"}

ArrayResponses ==
    {Given("array", items, "", "", fmt, "") :
        items \in SeqsUpTo(ArrayPool, MaxItems - 1) \cup SeqsUpTo(ShortPool, MaxItems),
        fmt \in {"default", "indented"}}

WrappedResponses ==
    {Given("wrapped", items, pre, post, "default", "") :
        items \in SeqsUpTo(ShortPool, MaxShort),
        pre \in ProsePrefixes, post \in ProseSuffixes}
    \ {Given("wrapped", items, "", "", "default", "") : items \in SeqsUpTo(ShortPool, MaxShort)}

ObjectResponses ==
    {Given("object", items, "", "", fmt, "") :
        items \in SeqsUpTo(ShortPool, MaxItems), fmt \in {"default", "compact"}}

MarkedResponses ==
    {Given("marked", items, "Here are some questions:", "", style, indent) :
        items \in {xs \in SeqsUpTo(BodyPool, MaxShort + 1) : xs # <<>> /\ Distinct(xs)},
        style \in {"dot", "paren", "dash", "star", "quote"},
        indent \in {"", "  "}}

ProseResponses ==
    {Given("prose", items, "", "", "", "") :
        items \in {xs \in SeqsUpTo(Statements \cup QuestionSentences, MaxSentences) :
                      xs # <<>>}}

SentinelResponses ==
    {Given("sentinel", <<phrase>>, pre, post, "", "") :
        phrase \in {"No follow-up needed", "no follow-up needed", "NO FOLLOW-UP NEEDED"},
        pre \in {"", " \n"},
        post \in {"", ".", "?", ".\n- Why now?", " [\"Why?\"]", ".\n"}}

RawResponses ==
    {Given("raw", <<text>>, "", "", "", "") :
        text \in {"", "  ", "42", "null", "\"Why?\"", "[1, 2]", "[\"Why?\", 1]",
                  "[[\"Why?\"]]", "[\"Why?\"", "[\"\", \" \", \"Why?\"]",
                  "{\"questions\": \"Why?\"}", "{\"items\": [\"Why?\"]}",
                  "{\"questions\": [\"Why?\", 7, \"\"]}", "{}",
                  "Well, no follow-up needed.", "No follow up needed",
                  "I have nothing to ask.", "- Why now?\n- \n- Noted", "Why? Why?",
                  "[]\n1. Why now?", "{\"items\": []}\n- Why now?"}}

\* s repeated n times
RECURSIVE Repeat(_, _)
Repeat(s, n) ==
    IF n = 0 THEN ""
    ELSE IF n = 1 THEN s
    ELSE With(Repeat(s, n \div 2), LAMBDA half :
             IF n % 2 = 0 THEN half \o half ELSE half \o half \o s)

\* an array holding one numeral of about MaxStrDigits digits
NumeralResponses ==
    {Given("numeral", <<Repeat("7", n)>>, "", "", "", "") :
        n \in {MaxStrDigits, MaxStrDigits + 1}}

Responses ==
    ArrayResponses \cup WrappedResponses \cup ObjectResponses \cup MarkedResponses
        \cup ProseResponses \cup SentinelResponses \cup RawResponses
        \cup NumeralResponses

(***************************************************************************)
(* Spec: the handling of one backend response.  From the start state       *)
(* either parse_follow_up_response is applied to a response, or            *)
(* execute_agent of the LLM-first agent runs with a backend that returns a *)
(* response or raises.                                                     *)
(***************************************************************************)
SmallRequests ==
    {[history |-> Text("history", h), query |-> Text("query", 1)] : h \in {0, 1}}

PromptIdle ==
    /\ system_text = Null
    /\ agent_request = Null
    /\ truncated = Null
    /\ prompt = Null

ValidationIdle ==
    /\ candidates = Null
    /\ valid = Null

DedupeIdle ==
    /\ new_questions = Null
    /\ conversation_history = Null
    /\ filtered_questions = Null
    /\ refiltered_questions = Null

StrategyIdle ==
    /\ agent_state = Null
    /\ generator = Null
    /\ max_questions = Null
    /\ sent_prompt = Null
    /\ handler_response = Null
    /\ process_result = Null

TemplateIdle ==
    /\ mock_agent_state = Null
    /\ llm_service = Null
    /\ additional_context = Null
    /\ updated_state = Null
    /\ follow_up_context = Null
    /\ template_result = Null
    /\ follow_up_outcome = Null
    /\ backend_calls = Null

ConcurrentIdle ==
    /\ given_states = Null
    /\ request_states = Null
    /\ shared_generator = Null
    /\ frames = Null

ResponseIdle ==
    /\ given = Null
    /\ llm_response = Null
    /\ questions = Null
    /\ parsed = Null
    /\ agent_response = Null

Init ==
    /\ pc = "start"
    /\ system_text = Text("system", 0)
    /\ agent_request \in SmallRequests
    /\ truncated = Null
    /\ prompt = Null
    /\ given = Null
    /\ llm_response = Null
    /\ questions = Null
    /\ parsed = Null
    /\ agent_response = EmptyDict
    /\ ValidationIdle
    /\ DedupeIdle
    /\ StrategyIdle
    /\ TemplateIdle
    /\ ConcurrentIdle

\* follow_up_questions = parse_follow_up_response(llm_response)
ParseFollowUpResponse ==
    /\ pc = "start"
    /\ \E g \in Responses :
          /\ given' = g
          /\ llm_response' = Render(g)
          /\ IF parse_follow_up_response_raises(Render(g)) = ""
             THEN /\ questions' = parse_follow_up_response(Render(g))
                  /\ pc' = "parsed"
             ELSE /\ questions' = questions
                  /\ pc' = "raised"
    /\ UNCHANGED <<promptVars, parsed, agent_response, validationVars, dedupeVars,
                   strategyVars, templateVars, concurrentVars>>

\* FollowUpAgent.execute_agent, the backend returning a text
ExecuteAgent ==
    /\ pc = "start"
    /\ truncated' = _truncate_history_to_fit_prompt(StaticPrompt(system_text),
                                                    agent_request.history)
    /\ prompt' = _build_followup_prompt(system_text, agent_request)
    /\ \E g \in Responses :
          /\ given' = g
          /\ llm_response' = Render(g)
          /\ parsed' = FollowUpResponseParser_parse(Render(g))
          /\ agent_response' =
                 execute_agent(agent_response, [raised |-> FALSE, text |-> Render(g)])
    /\ pc' = "executed"
    /\ UNCHANGED <<system_text, agent_request, questions, validationVars, dedupeVars,
                   strategyVars, templateVars, concurrentVars>>

\* FollowUpAgent.execute_agent, llm_service.chat raising
ExecuteAgentBackendFails ==
    /\ pc = "start"
    /\ truncated' = _truncate_history_to_fit_prompt(StaticPrompt(system_text),
                                                    agent_request.history)
    /\ prompt' = _build_followup_prompt(system_text, agent_request)
    /\ agent_response' = execute_agent(agent_response, [raised |-> TRUE])
    /\ pc' = "failed"
    /\ UNCHANGED <<system_text, agent_request, given, llm_response, questions, parsed,
                   validationVars, dedupeVars, strategyVars, templateVars,
                   concurrentVars>>

Next == ParseFollowUpResponse \/ ExecuteAgent \/ ExecuteAgentBackendFails

Spec == Init /\ [][Next]_vars

(***************************************************************************)
(* SpecPrompt: _build_followup_prompt applied to requests and imported     *)
(* constants whose lengths lie around the limits of the budget.            *)
(***************************************************************************)
Slack == 2
TailFixedLen == TailBeforeQueryLen + TailAfterQueryLen
Around(n) == {k \in (n - Slack)..(n + Slack) : k >= 0}

\* lengths of the imported constants: empty, filling the budget up to the
\* tail, and filling the budget up to (and past) the limit
SystemLens ==
    {0} \cup Around(MAX_PROMPT_CHARS - StaticFixedLen - TailFixedLen)
        \cup Around(MAX_PROMPT_CHARS - StaticFixedLen)

HistoryLens ==
    (0..Slack) \cup Around(TailFixedLen) \cup Around(MAX_PROMPT_CHARS - StaticFixedLen)

QueryLens == {0, Slack}

InitPrompt ==
    /\ pc = "start"
    /\ \E n \in SystemLens : system_text = Text("system", n)
    /\ \E h \in HistoryLens, q \in QueryLens :
          agent_request = [history |-> Text("history", h), query |-> Text("query", q)]
    /\ truncated = Null
    /\ prompt = Null
    /\ ResponseIdle
    /\ ValidationIdle
    /\ DedupeIdle
    /\ StrategyIdle
    /\ TemplateIdle
    /\ ConcurrentIdle

\* prompt = self._build_followup_prompt(state.agent_request)
BuildPrompt ==
    /\ pc = "start"
    /\ truncated' = _truncate_history_to_fit_prompt(StaticPrompt(system_text),
                                                    agent_request.history)
    /\ prompt' = _build_followup_prompt(system_text, agent_request)
    /\ pc' = "built"
    /\ UNCHANGED <<system_text, agent_request, responseVars, validationVars,
                   dedupeVars, strategyVars, templateVars, concurrentVars>>

NextPrompt == BuildPrompt

SpecPrompt == InitPrompt /\ [][NextPrompt]_vars

(***************************************************************************)
(* SpecValidate: _validate_follow_up_questions applied to batches of       *)
(* candidates whose lengths lie around the minimum length and whose count  *)
(* lies around the maximum count.                                          *)
(***************************************************************************)
LenSlack == 1
MaxBatch == 4

FillerUnit == "What amount would you like to invest"
\* long enough for the "A" * 500 kind of candidate of the tests
Filler == FillerUnit \o FillerUnit \o FillerUnit \o FillerUnit \o FillerUnit \o FillerUnit
LongLen == 200
QuestionOfLen(n) == SubSeq(Filler, 1, n - 1) \o "?"
StatementOfLen(n) == SubSeq(Filler, 1, n)

CandidatePool ==
    UNION {{QuestionOfLen(n), StatementOfLen(n)} :
              n \in (MinQuestionChars - LenSlack)..(MinQuestionChars + LenSlack)}
    \cup {QuestionOfLen(LongLen)}

InitValidate ==
    /\ pc = "start"
    /\ candidates \in SeqsUpTo(CandidatePool, MaxBatch)
    /\ valid = Null
    /\ PromptIdle
    /\ ResponseIdle
    /\ DedupeIdle
    /\ StrategyIdle
    /\ TemplateIdle
    /\ ConcurrentIdle

\* self._validate_follow_up_questions(follow_up_result.get("follow_up_questions", []))
Validate ==
    /\ pc = "start"
    /\ valid' = _validate_follow_up_questions(candidates)
    /\ pc' = "validated"
    /\ UNCHANGED <<candidates, promptVars, responseVars, dedupeVars, strategyVars,
                   templateVars, concurrentVars>>

NextValidate == Validate

SpecValidate == InitValidate /\ [][NextValidate]_vars

(***************************************************************************)
(* Properties.                                                             *)
(***************************************************************************)
Available == MAX_PROMPT_CHARS - Len(StaticPrompt(system_text))

\* C1: the prompt returned by _build_followup_prompt is never longer than
\* MAX_PROMPT_CHARS, also when the static section alone exceeds the budget.
C1_PromptWithinBudget ==
    pc = "built" => Len(prompt) <= MAX_PROMPT_CHARS

\* the static section alone is over budget and the hard cut has acted
C1_Witness ==
    /\ pc = "built"
    /\ Len(StaticPrompt(system_text)) > MAX_PROMPT_CHARS
    /\ Len(prompt) = MAX_PROMPT_CHARS

\* C2: with available = MAX_PROMPT_CHARS - len(static_prompt), the history
\* is kept whole when it fits, cut to its last `available` characters when it
\* is longer and available > 0, and empty when available <= 0.
C2_KeepsMostRecentHistory ==
    pc = "built" =>
        With(<<Available, Len(agent_request.history)>>, LAMBDA n :
            LET available == n[1]
                dropped == n[2] - n[1]
            IN  /\ (available > 0 /\ dropped <= 0) => truncated = agent_request.history
                /\ (available > 0 /\ dropped > 0) =>
                       /\ Len(truncated) = available
                       /\ \A i \in 1..Len(truncated) :
                              truncated[i] = agent_request.history[dropped + i]
                /\ available <= 0 => truncated = <<>>)

\* a history longer than the room left: its newest character is kept, its
\* oldest is dropped
C2_Witness ==
    /\ pc = "built"
    /\ Available > 0
    /\ Len(agent_request.history) > Available
    /\ truncated[Len(truncated)] = agent_request.history[Len(agent_request.history)]
    /\ truncated[1] # agent_request.history[1]

\* C3: every pipeline returns at most max_questions (3 by default)
\* questions; stated for what execute_agent of the LLM-first agent stores.
C3_AtMostMaxQuestions ==
    pc \in {"executed", "failed"} =>
        Len(agent_response["follow_up_questions"]) <= DefaultMaxQuestions

\* C4: whenever no_follow_up_needed is true the questions are empty, in the
\* parser's result and in what execute_agent stores with follow_up_needed
\* False.
C4_NoFollowUpNeededHasNoQuestions ==
    /\ pc = "executed" =>
           (parsed.no_follow_up_needed => parsed.questions = <<>>)
    /\ pc \in {"executed", "failed"} =>
           (~agent_response["follow_up_needed"] =>
                agent_response["follow_up_questions"] = <<>>)

\* no follow-up reported for a response that is not the sentinel
C4_Witness ==
    /\ pc = "executed"
    /\ given.kind # "sentinel"
    /\ parsed.no_follow_up_needed
    /\ ~agent_response["follow_up_needed"]
    /\ agent_response["follow_up_questions"] = <<>>

\* C5: a response that is exactly a JSON array of N strings is parsed by
\* parse_follow_up_response into exactly those N strings, in order.
C5_JsonArrayRoundTrip ==
    (pc = "parsed" /\ given.kind = "array") => questions = given.items

\* three strings, two of them equal, come back unchanged
C5_Witness ==
    /\ pc = "parsed"
    /\ given.kind = "array"
    /\ Len(given.items) = 3
    /\ ~Distinct(given.items)
    /\ questions = given.items

\* C6: a JSON array wrapped in prose is located and exactly its strings are
\* returned, whatever the surrounding prose.
C6_WrappedArrayExtracted ==
    (pc = "parsed" /\ given.kind = "wrapped") => questions = given.items

\* C7: a response that starts, after strip and lower-casing, with the
\* sentinel parses to no questions with no_follow_up_needed true, whatever
\* follows the sentinel, and execute_agent stores an empty list.
C7_SentinelShortCircuits ==
    (pc = "executed" /\ given.kind = "sentinel") =>
        /\ parsed = ParseResult(<<>>, TRUE)
        /\ agent_response["follow_up_questions"] = <<>>
        /\ ~agent_response["follow_up_needed"]

\* a sentinel response from which the line strategy would extract questions
C7_Witness ==
    /\ pc = "executed"
    /\ given.kind = "sentinel"
    /\ LineQuestions(Strip(llm_response)) # <<>>
    /\ parsed.questions = <<>>
    /\ agent_response["follow_up_questions"] = <<>>

\* C8: from an introduction followed by marker lines, possibly indented,
\* parse_follow_up_response returns exactly the text after the marker of
\* each line that ends with a question mark.
C8_MarkedLinesExtracted ==
    (pc = "parsed" /\ given.kind = "marked") =>
        questions = SelectSeq(given.items, IsQuestionLine)

\* C9: from unstructured prose holding exactly two sentences that end with
\* a question mark (two different sentences), the parsers extract exactly
\* those two sentences, in order.
C9_TwoQuestionSentencesExtracted ==
    LET asked == IF pc \in {"parsed", "executed"}
                 THEN SelectSeq(given.items, IsQuestionLine)
                 ELSE <<>>
    IN  (pc \in {"parsed", "executed"} /\ given.kind = "prose"
            /\ Len(asked) = 2 /\ Distinct(asked)) =>
            /\ pc = "parsed" => questions = asked
            /\ pc = "executed" => parsed.questions = asked

Contains(s, sub) ==
    \E i \in 1..(Len(s) - Len(sub) + 1) : SubSeq(s, i, i + Len(sub) - 1) = sub

\* d.get(k, default)
Get(d, k, default) == IF k \in DOMAIN d THEN d[k] ELSE default

\* json.dumps of a dict of at most one key with a str value
JsonDumpsDict(d, indented) ==
    IF DOMAIN d = {} THEN "{}"
    ELSE LET k == CHOOSE x \in DOMAIN d : TRUE
             item == JsonString(k) \o ": " \o JsonString(d[k])
         IN  IF indented THEN "{\n  " \o item \o "\n}" ELSE "{" \o item \o "}"

\* the readable text of the primary agent's response
ResponseText(primary_response) ==
    IF "message" \in DOMAIN primary_response THEN primary_response["message"]
    ELSE IF "content" \in DOMAIN primary_response THEN primary_response["content"]
    ELSE IF "response" \in DOMAIN primary_response THEN primary_response["response"]
    ELSE JsonDumpsDict(primary_response, TRUE)

\* follow_up_questions and user_query of every history entry
RECURSIVE PromptPreviousQuestions(_)
PromptPreviousQuestions(history) ==
    IF history = <<>> THEN <<>>
    ELSE Get(Head(history), "follow_up_questions", <<>>)
         \o (IF "user_query" \in DOMAIN Head(history)
             THEN <<Head(history)["user_query"]>> ELSE <<>>)
         \o PromptPreviousQuestions(Tail(history))

\* user_context as the sequence of its (key, str(value)) items
_extract_user_context(state) ==
    (IF "user_profile" \in DOMAIN state
     THEN <<<<"risk_level", Get(state["user_profile"], "risk_level", "")>>,
            <<"investment_horizon", Get(state["user_profile"], "investment_horizon", "")>>,
            <<"investment_goals", Get(state["user_profile"], "investment_goals", "[]")>>,
            <<"knowledge_level", Get(state["user_profile"], "knowledge_level", "")>>>>
     ELSE <<>>)
    \o (IF "portfolio_data" \in DOMAIN state
        THEN <<<<"portfolio_value", Get(state["portfolio_data"], "total_value", "0")>>,
               <<"asset_allocation", Get(state["portfolio_data"], "asset_allocation", "{}")>>>>
        ELSE <<>>)

ContextText(user_context) ==
    IF user_context = <<>> THEN ""
    ELSE "User Context:\n" \o
         Join([i \in 1..Len(user_context) |->
                  "- " \o user_context[i][1] \o ": " \o user_context[i][2] \o "\n"], "")

PromptIntro ==
    "\n" \o
    "You are an intelligent follow-up question generator for a financial advisory system. \n" \o
    "Your task is to generate "

PromptBeforeQuery ==
    " relevant and engaging follow-up questions based on the \n" \o
    "user's original query and the agent's response.\n" \o
    "\n" \o
    "User's Original Query: \n"

PromptBeforeAgentType ==
    "\n" \o
    "\n" \o
    "Agent Type: "

PromptBeforeResponse ==
    "\n" \o
    "\n" \o
    "Agent's Response:\n"

PromptBeforeContext ==
    "\n" \o
    "\n"

PromptBeforeCount ==
    "\n" \o
    "\n" \o
    "REQUIREMENTS FOR FOLLOW-UP QUESTIONS:\n" \o
    "1. Generate exactly "

PromptBeforePrevious ==
    " follow-up questions that naturally extend the conversation.\n" \o
    "2. Questions should be relevant to the user's original query and the agent's response.\n" \o
    "3. Questions should encourage deeper exploration of the topic or related financial concepts.\n" \o
    "4. Questions should be concise and conversational (15 words or less).\n" \o
    "5. Questions should not duplicate any previously asked questions.\n" \o
    "6. Format your response as a JSON array of strings only.\n" \o
    "\n" \o
    "Previously asked questions (DO NOT DUPLICATE THESE):\n"

PromptExample ==
    "\n" \o
    "\n" \o
    "OUTPUT FORMAT EXAMPLE:\n" \o
    "[\n" \o
    "  \"Question 1?\",\n" \o
    "  \"Question 2?\",\n" \o
    "  \"Question 3?\"\n" \o
    "]\n"

\* Variant that lists only the most recent entry's questions.
PromptWithLastEntryOnly(user_query, primary_response, agent_type, user_context, history, count) ==
    PromptIntro \o ToString(count) \o PromptBeforeQuery \o user_query
    \o PromptBeforeAgentType \o (IF agent_type # "" THEN agent_type ELSE "Not specified")
    \o PromptBeforeResponse \o ResponseText(primary_response)
    \o PromptBeforeContext \o ContextText(user_context)
    \o PromptBeforeCount \o ToString(count) \o PromptBeforePrevious
    \o (IF history # <<>> /\ PromptPreviousQuestions(<<history[Len(history)]>>) # <<>>
        THEN JsonArrayText(PromptPreviousQuestions(<<history[Len(history)]>>), "indented")
        ELSE "None")
    \o PromptExample

generate_follow_up_prompt(user_query, primary_response, agent_type, user_context, history, count) ==
    PromptIntro \o ToString(count) \o PromptBeforeQuery \o user_query
    \o PromptBeforeAgentType \o (IF agent_type # "" THEN agent_type ELSE "Not specified")
    \o PromptBeforeResponse \o ResponseText(primary_response)
    \o PromptBeforeContext \o ContextText(user_context)
    \o PromptBeforeCount \o ToString(count) \o PromptBeforePrevious
    \o (IF PromptPreviousQuestions(history) # <<>>
        THEN JsonArrayText(PromptPreviousQuestions(history), "indented")
        ELSE "None")
    \o PromptExample

\* list[:n]
SliceTo(xs, n) ==
    IF n >= 0 THEN Take(xs, Min(n, Len(xs))) ELSE Take(xs, Max(0, Len(xs) + n))

\* Variant that cuts the parsed list to count before filtering it against
\* the history.
GenerateCappingBeforeFilter(state, original_response, count, text) ==
    With(Get(state, "conversation_history", <<>>), LAMBDA history :
        [prompt |-> generate_follow_up_prompt(
                        Get(state, "user_query", ""), original_response,
                        Get(state, "current_agent_type", ""),
                        _extract_user_context(state), history, count),
         questions |-> _filter_duplicate_questions(
                           SliceTo(parse_follow_up_response(text), count), history)])

\* LLMBasedFollowUpGenerator.generate_questions; text is what the handler
\* returned.  The result holds the prompt that was sent and the questions.
LLMBased_generate_questions(state, original_response, count, text) ==
    With(Get(state, "conversation_history", <<>>), LAMBDA history :
        [prompt |-> generate_follow_up_prompt(
                        Get(state, "user_query", ""), original_response,
                        Get(state, "current_agent_type", ""),
                        _extract_user_context(state), history, count),
         questions |-> SliceTo(_filter_duplicate_questions(
                                   parse_follow_up_response(text), history), count)])

\* self.keyword_mapping as the sequence of its (keyword, questions) items
DefaultKeywordMapping ==
    <<<<"portfolio", <<"Would you like to see your portfolio performance over time?",
                       "Are you interested in rebalancing your portfolio?",
                       "Would you like to learn more about diversification strategies?">>>>,
      <<"fund", <<"Would you like to compare this fund with similar ones?",
                  "Are you interested in the fund's historical performance?",
                  "Would you like to know about the fund's expense ratio?">>>>,
      <<"tax", <<"Would you like to explore tax-loss harvesting opportunities?",
                 "Are you interested in tax-efficient investment strategies?",
                 "Would you like to learn about tax implications for different account types?">>>>,
      <<"default", <<"Would you like to learn more about this topic?",
                     "Do you have any specific questions about your investments?",
                     "Would you like to explore other investment opportunities?">>>>>>

MappingHas(mapping, keyword) == \E i \in 1..Len(mapping) : mapping[i][1] = keyword
MappingGet(mapping, keyword) ==
    mapping[CHOOSE i \in 1..Len(mapping) : mapping[i][1] = keyword][2]

\* the questions of every non-default keyword that occurs in the text
RECURSIVE KeywordMatches(_, _)
KeywordMatches(mapping, response_text) ==
    IF mapping = <<>> THEN <<>>
    ELSE (IF Contains(response_text, Head(mapping)[1]) /\ Head(mapping)[1] # "default"
          THEN Head(mapping)[2] ELSE <<>>)
         \o KeywordMatches(Tail(mapping), response_text)

RECURSIVE UniqueQuestions(_, _)
UniqueQuestions(qs, acc) ==
    IF qs = <<>> THEN acc
    ELSE UniqueQuestions(Tail(qs),
                         IF Head(qs) \in Elems(acc) THEN acc ELSE Append(acc, Head(qs)))

\* Variant that appends the default questions after whatever matched.
KeywordQuestionsWithDefaultAppended(mapping, state, original_response, count) ==
    With(<<Lower(JsonDumpsDict(original_response, FALSE)),
           Lower(Get(state, "current_agent_type", ""))>>, LAMBDA t :
        With((IF MappingHas(mapping, t[2]) THEN MappingGet(mapping, t[2]) ELSE <<>>)
             \o KeywordMatches(mapping, t[1]), LAMBDA matched :
            SliceTo(UniqueQuestions(
                        IF MappingHas(mapping, "default")
                        THEN matched \o MappingGet(mapping, "default") ELSE matched, <<>>),
                    count)))

KeywordBased_generate_questions(mapping, state, original_response, count) ==
    With(<<Lower(JsonDumpsDict(original_response, FALSE)),
           Lower(Get(state, "current_agent_type", ""))>>, LAMBDA t :
        With((IF MappingHas(mapping, t[2]) THEN MappingGet(mapping, t[2]) ELSE <<>>)
             \o KeywordMatches(mapping, t[1]), LAMBDA matched :
            SliceTo(UniqueQuestions(
                        IF matched = <<>> /\ MappingHas(mapping, "default")
                        THEN MappingGet(mapping, "default") ELSE matched, <<>>),
                    count)))

(***************************************************************************)
(* FollowUpAgent.process.  handler is what llm_handler.generate_response   *)
(* did when called: [raised |-> TRUE] or [raised |-> FALSE, text |-> t].   *)
(* The result says whether process raised, the state it returned, whether  *)
(* the handler was called and the prompt it was called with.               *)
(***************************************************************************)
Processed(state, called, sent, calls) ==
    [raised |-> FALSE, state |-> state, called |-> called, prompt |-> sent,
     generator_calls |-> calls]
ProcessRaised(sent, calls) ==
    [raised |-> TRUE, state |-> Null, called |-> TRUE, prompt |-> sent,
     generator_calls |-> calls]

\* the keyword arguments of one self.generator_strategy.generate_questions call
GeneratorCall(state, original_response, count) ==
    [agent_state |-> state, original_response |-> original_response, max_questions |-> count]

\* what the generator strategy does when called: the keyword generator and
\* a mock return a list, the LLM generator returns one or raises with the
\* handler
Generate(state, strategy, original_response, count, handler) ==
    IF strategy.kind = "mock"
    THEN [raised |-> FALSE, called |-> FALSE, prompt |-> Null,
          questions |-> strategy.return_value]
    ELSE IF strategy.kind = "keyword"
    THEN [raised |-> FALSE, called |-> FALSE, prompt |-> Null,
          questions |-> KeywordBased_generate_questions(
                            strategy.keyword_mapping, state, original_response, count)]
    ELSE With(LLMBased_generate_questions(
                  state, original_response, count,
                  IF handler.raised THEN "" ELSE handler.text), LAMBDA made :
             [raised |-> handler.raised, called |-> TRUE, prompt |-> made.prompt,
              questions |-> made.questions])

\* Variant that asks the generator for the default of three questions and
\* returns a state holding the questions and the primary response only.
ProcessWithDefaultsOnFreshState(state, strategy, count, handler) ==
    IF "primary_agent_response" \notin DOMAIN state
    THEN Processed(state, FALSE, Null, <<>>)
    ELSE With(Generate(state, strategy, state["primary_agent_response"], 3, handler),
              LAMBDA made :
             IF made.raised
             THEN ProcessRaised(made.prompt,
                                <<GeneratorCall(state, state["primary_agent_response"], 3)>>)
             ELSE Processed(("primary_agent_response" :> state["primary_agent_response"])
                                @@ ("follow_up_questions" :> made.questions),
                            made.called, made.prompt,
                            <<GeneratorCall(state, state["primary_agent_response"], 3)>>))

process(state, strategy, count, handler) ==
    IF "primary_agent_response" \notin DOMAIN state
    THEN Processed(state, FALSE, Null, <<>>)
    ELSE With(Generate(state, strategy, state["primary_agent_response"], count, handler),
              LAMBDA made :
             IF made.raised
             THEN ProcessRaised(made.prompt,
                                <<GeneratorCall(state, state["primary_agent_response"], count)>>)
             ELSE Processed(SetKey(state, "follow_up_questions", made.questions),
                            made.called, made.prompt,
                            <<GeneratorCall(state, state["primary_agent_response"], count)>>))

(***************************************************************************)
(* SpecDedupe: _filter_duplicate_questions applied to a candidate list and *)
(* a conversation history, then to its own output with the same history.   *)
(***************************************************************************)
MaxCandidates == 3
MaxHistory == 2

CandidateQuestions == {"Why now?", "why now?", " Why now? ", "How so?"}

HistoryEntries ==
    {[role |-> "user", content |-> "Why now?"],
     [follow_up_questions |-> <<>>],
     [follow_up_questions |-> <<"WHY NOW?">>],
     [role |-> "assistant", follow_up_questions |-> <<"How so?", "why now?">>]}

InitDedupe ==
    /\ pc = "start"
    /\ new_questions \in SeqsUpTo(CandidateQuestions, MaxCandidates)
    /\ conversation_history \in SeqsUpTo(HistoryEntries, MaxHistory)
    /\ filtered_questions = Null
    /\ refiltered_questions = Null
    /\ PromptIdle
    /\ ResponseIdle
    /\ ValidationIdle
    /\ StrategyIdle
    /\ TemplateIdle
    /\ ConcurrentIdle

FilterDuplicates ==
    /\ pc = "start"
    /\ filtered_questions' = _filter_duplicate_questions(new_questions, conversation_history)
    /\ pc' = "filtered"
    /\ UNCHANGED <<new_questions, conversation_history, refiltered_questions,
                   promptVars, responseVars, validationVars, strategyVars,
                   templateVars, concurrentVars>>

FilterAgain ==
    /\ pc = "filtered"
    /\ refiltered_questions' =
           _filter_duplicate_questions(filtered_questions, conversation_history)
    /\ pc' = "refiltered"
    /\ UNCHANGED <<new_questions, conversation_history, filtered_questions,
                   promptVars, responseVars, validationVars, strategyVars,
                   templateVars, concurrentVars>>

NextDedupe == FilterDuplicates \/ FilterAgain

SpecDedupe == InitDedupe /\ [][NextDedupe]_vars

(***************************************************************************)
(* SpecStrategy: FollowUpAgent.process of the strategy-based agent, built  *)
(* with the LLM generator or with the keyword generator.                   *)
(***************************************************************************)
MaxAsked == 4

\* mapping of test_keyword_based_generator
TestKeywordMapping ==
    <<<<"portfolio", <<"Would you like to see your portfolio details?",
                       "Do you want to know about your asset allocation?">>>>,
      <<"tax", <<"Want to learn about tax strategies?",
                 "Interested in tax-loss harvesting?">>>>,
      <<"default", <<"Any other questions?", "Would you like more information?">>>>>>

Generators ==
    {[kind |-> "llm"],
     [kind |-> "keyword", keyword_mapping |-> DefaultKeywordMapping],
     [kind |-> "keyword", keyword_mapping |-> TestKeywordMapping],
     [kind |-> "mock", return_value |-> <<"Follow-up question 1?", "Follow-up question 2?">>]}

AgentTypes == {"", "portfolio", "Tax", "unknown"}

PrimaryResponses ==
    {[message |-> "Your portfolio is up 5% this year."],
     [message |-> "Some information..."],
     [data |-> "Fund and tax details"]}

StrategyHistories ==
    {<<>>,
     <<[user_query |-> "Previous question?",
        follow_up_questions |-> <<"Already asked?", "Is \"growth\" ok?">>]>>,
     <<[follow_up_questions |-> <<"Already asked?">>],
       [role |-> "user"],
       [follow_up_questions |-> <<"How so?", "Why now?">>]>>}

UserProfiles == {[risk_level |-> "moderate", investment_horizon |-> "long-term"]}

\* a key that may be missing from the dict
Optional(key, values) == {EmptyDict} \cup {key :> v : v \in values}

AgentStates ==
    {("user_query" :> "How is my portfolio performing?")
         @@ ("conversation_history" :> history) @@ type @@ response @@ profile :
        type \in Optional("current_agent_type", AgentTypes),
        response \in Optional("primary_agent_response", PrimaryResponses),
        history \in StrategyHistories,
        profile \in Optional("user_profile", UserProfiles)}

HandlerTexts ==
    {"[\"Already asked?\", \"New question?\", \"Another one?\", \"One more?\", \"Last one?\"]",
     "Sure.\n1. Why now?\n2. What else?",
     "I have nothing to ask."}

InitStrategy ==
    /\ pc = "start"
    /\ agent_state \in AgentStates
    /\ generator \in Generators
    /\ max_questions \in 0..MaxAsked
    /\ sent_prompt = Null
    /\ handler_response = Null
    /\ process_result = Null
    /\ PromptIdle
    /\ ResponseIdle
    /\ ValidationIdle
    /\ DedupeIdle
    /\ TemplateIdle
    /\ ConcurrentIdle

Process(handler) ==
    /\ process_result' = process(agent_state, generator, max_questions, handler)
    /\ sent_prompt' = process_result'.prompt
    /\ handler_response' = IF process_result'.called THEN handler ELSE Null
    /\ agent_state' = IF process_result'.raised THEN agent_state ELSE process_result'.state
    /\ pc' = "processed"
    /\ UNCHANGED <<generator, max_questions, promptVars, responseVars,
                   validationVars, dedupeVars, templateVars, concurrentVars>>

ProcessWithKeywords ==
    /\ pc = "start"
    /\ generator.kind = "keyword"
    /\ Process([raised |-> TRUE])

\* agent = FollowUpAgent(mock_generator, max_questions); agent.process(agent_state)
ProcessWithMock ==
    /\ pc = "start"
    /\ generator.kind = "mock"
    /\ Process([raised |-> TRUE])

ProcessWithLLM ==
    /\ pc = "start"
    /\ generator.kind = "llm"
    /\ \E text \in HandlerTexts : Process([raised |-> FALSE, text |-> text])

ProcessWithLLMHandlerFails ==
    /\ pc = "start"
    /\ generator.kind = "llm"
    /\ "primary_agent_response" \in DOMAIN agent_state
    /\ Process([raised |-> TRUE])

NextStrategy ==
    \/ ProcessWithKeywords
    \/ ProcessWithMock
    \/ ProcessWithLLM
    \/ ProcessWithLLMHandlerFails

SpecStrategy == InitStrategy /\ [][NextStrategy]_vars

(***************************************************************************)
(* The template-first agent (follow_Up_Agent.py).  An AgentState is a      *)
(* function on the names of its attributes.  Python's None is NoneValue;   *)
(* an Optional[str] that is not None is Some(text).  An operation that can *)
(* raise yields Raise(str(e)) or Return(value).  The backend is            *)
(* [raised |-> TRUE, error |-> str(e)] or [raised |-> FALSE, text |-> t].  *)
(***************************************************************************)
NoneValue == [none |-> TRUE]
Some(x) == [none |-> FALSE, some |-> x]
IsNone(x) == "none" \in DOMAIN x /\ x.none

Raise(e) == [raised |-> TRUE, error |-> e]
Return(v) == [raised |-> FALSE, value |-> v]

FollowUpResult(qs, reasoning, confidence) ==
    [follow_up_questions |-> qs, reasoning |-> reasoning, confidence_score |-> confidence]

\* prompt_repository generate_follow_up_questions: the template stage
generate_follow_up_questions(context) ==
    LET previous_messages == IF "previous_messages" \in DOMAIN context
                             THEN context["previous_messages"] ELSE <<>>
    IN  IF previous_messages = <<>>
        THEN FollowUpResult(<<"Could you provide more context about your current situation?">>,
                            "Initial conversation requires more context", "0.5")
        ELSE FollowUpResult(<<>>, "No specific follow-up questions generated", "0.5")

\* response = self.llm_service.generate_response(intent_prompt); response.strip()
_infer_intent_from_query(query, backend) ==
    IF backend.raised THEN NoneValue ELSE Some(Strip(backend.text))

\* state.agent_request.query on None raises inside the try: the result is None
_extract_intent(state, backend) ==
    IF state["agent_response"] # EmptyDict /\ "intent" \in DOMAIN state["agent_response"]
    THEN Some(state["agent_response"]["intent"])
    ELSE IF IsNone(state["agent_request"]) THEN NoneValue
    ELSE _infer_intent_from_query(state["agent_request"].query, backend)

contextual_keys == <<"fund_data", "portfolio_data", "user_preferences", "investment_goals">>

\* Variant that copies an allow-listed attribute only when its value is
\* truthy.
ExtractTruthyOnly(state) ==
    [key \in {k \in Elems(contextual_keys) \cap DOMAIN state : state[k] # EmptyDict}
        |-> state[key]]

_extract_additional_context(state) ==
    [key \in Elems(contextual_keys) \cap DOMAIN state |-> state[key]]

\* Variant whose context also carries the request's messages under
\* previous_messages, the key the template stage reads.
PrepareWithPreviousMessages(state, backend) ==
    IF IsNone(state["agent_request"])
    THEN Raise("'NoneType' object has no attribute 'query'")
    ELSE Return([user_query |-> state["agent_request"].query,
                 conversation_history |->
                     SelectSeq(state["agent_request"].messages,
                               LAMBDA msg : "content" \in DOMAIN msg),
                 completed_agents |-> state["completed_agents"],
                 agent_response |-> state["agent_response"],
                 current_intent |-> _extract_intent(state, backend),
                 additional_context |-> _extract_additional_context(state),
                 previous_messages |-> state["agent_request"].messages])

\* the dict literal is evaluated in order: state.agent_request.query first
_prepare_follow_up_context(state, backend) ==
    IF IsNone(state["agent_request"])
    THEN Raise("'NoneType' object has no attribute 'query'")
    ELSE Return([user_query |-> state["agent_request"].query,
                 conversation_history |->
                     SelectSeq(state["agent_request"].messages,
                               LAMBDA msg : "content" \in DOMAIN msg),
                 completed_agents |-> state["completed_agents"],
                 agent_response |-> state["agent_response"],
                 current_intent |-> _extract_intent(state, backend),
                 additional_context |-> _extract_additional_context(state)])

\* json.dumps(context, indent=2) raises TypeError on a message object
JsonSerializable(context) == context.conversation_history = <<>>

\* [q.strip() for q in response.split('\n') if q.strip() and q.strip().endswith('?')][:3]
QuestionLines(response) ==
    Take(SelectSeq([i \in 1..Len(SplitNewline(response)) |->
                       Strip(SplitNewline(response)[i])],
                   LAMBDA q : q # "" /\ EndsWith(q, "?")),
         3)

_llm_generate_follow_up_questions(context, backend) ==
    IF ~JsonSerializable(context)
    THEN FollowUpResult(<<>>, "LLM generation failed: Object is not JSON serializable", "0.0")
    ELSE IF backend.raised
    THEN FollowUpResult(<<>>, "LLM generation failed: " \o backend.error, "0.0")
    ELSE FollowUpResult(QuestionLines(backend.text),
                        "LLM-generated follow-up questions", "0.7")

\* Variant that keeps whatever the template stage returned.
GateWithoutFallback(follow_up_result, context, backend) == follow_up_result

\* lines 166-171: the gate on the template stage's result and the fallback
GateAndFallback(follow_up_result, context, backend) ==
    IF ~_validate_follow_up_questions(follow_up_result.follow_up_questions)
    THEN _llm_generate_follow_up_questions(context, backend)
    ELSE follow_up_result

\* neither stage raises, so the except branch of the source is never taken
_generate_follow_up_questions(context, backend) ==
    GateAndFallback(generate_follow_up_questions(context), context, backend)

\* Variant that stores the three fields whatever the list holds.
StoreAlways(state, follow_up_result) ==
    ("follow_up_questions" :> follow_up_result.follow_up_questions)
    @@ ("follow_up_reasoning" :> follow_up_result.reasoning)
    @@ ("follow_up_confidence" :> follow_up_result.confidence_score)
    @@ state

StoreResult(state, follow_up_result) ==
    IF follow_up_result.follow_up_questions # <<>>
    THEN ("follow_up_questions" :> follow_up_result.follow_up_questions)
         @@ ("follow_up_reasoning" :> follow_up_result.reasoning)
         @@ ("follow_up_confidence" :> follow_up_result.confidence_score)
         @@ state
    ELSE state

\* Variant without the try/except at the boundary: the exception of the
\* context preparation propagates.
ExecuteWithoutBoundary(state, backend) ==
    LET prepared == _prepare_follow_up_context(state, backend)
    IN  IF prepared.raised THEN prepared
        ELSE Return(StoreResult(state,
                                _generate_follow_up_questions(prepared.value, backend)))

\* execute_agent of the template-first agent
TemplateFirst_execute_agent(state, backend) ==
    LET prepared == _prepare_follow_up_context(state, backend)
    IN  IF prepared.raised THEN Return(("error" :> prepared.error) @@ state)
        ELSE Return(StoreResult(state,
                                _generate_follow_up_questions(prepared.value, backend)))

\* execute_agent with _generate_follow_up_questions replaced by a stub that
\* returns or raises `generated`, as test_error_handling patches it
execute_agent_with_generation(state, backend, generated) ==
    LET prepared == _prepare_follow_up_context(state, backend)
    IN  IF prepared.raised THEN Return(("error" :> prepared.error) @@ state)
        ELSE IF generated.raised THEN Return(("error" :> generated.error) @@ state)
        ELSE Return(StoreResult(state, generated.value))

\* the calls of self.llm_service.generate_response that _extract_intent makes
IntentCalls(state) ==
    IF state["agent_response"] # EmptyDict /\ "intent" \in DOMAIN state["agent_response"]
    THEN <<>>
    ELSE IF IsNone(state["agent_request"]) THEN <<>>
    ELSE <<"intent_prompt">>

\* the calls of self.llm_service.generate_response that
\* _generate_follow_up_questions makes: json.dumps runs before the call
FallbackCalls(follow_up_result, context) ==
    IF /\ ~_validate_follow_up_questions(follow_up_result.follow_up_questions)
       /\ JsonSerializable(context)
    THEN <<"follow_up_prompt">>
    ELSE <<>>

GenerationCalls(context) == FallbackCalls(generate_follow_up_questions(context), context)

\* the calls of self.llm_service.generate_response during one execute_agent
ExecuteCalls(state, backend) ==
    LET prepared == _prepare_follow_up_context(state, backend)
    IN  IF prepared.raised THEN <<>>
        ELSE IntentCalls(state) \o GenerationCalls(prepared.value)

(***************************************************************************)
(* SpecTemplate: the template-first agent on one AgentState.               *)
(***************************************************************************)
ContextValues == {EmptyDict, ("test" :> "data")}

Messages == {<<>>, <<[content |-> "Initial query about mutual funds"], [role |-> "system"]>>}

AgentRequests ==
    {NoneValue} \cup {[query |-> "Tell me about mutual funds", messages |-> m] : m \in Messages}

StateResponses == {EmptyDict, ("intent" :> "Comparison"), ("message" :> "ok")}

\* the three fields an earlier execute_agent on the same state may have left
EarlierFollowUps ==
    {EmptyDict,
     ("follow_up_questions" :> <<"What is your investment horizon?">>)
        @@ ("follow_up_reasoning" :> "LLM-generated follow-up questions")
        @@ ("follow_up_confidence" :> "0.7")}

MockAgentStates ==
    {("agent_request" :> r) @@ ("agent_response" :> a) @@ ("completed_agents" :> <<>>)
        @@ fund @@ portfolio @@ prefs @@ goals @@ profile @@ earlier :
        r \in AgentRequests, a \in StateResponses, earlier \in EarlierFollowUps,
        fund \in Optional("fund_data", ContextValues),
        portfolio \in Optional("portfolio_data", ContextValues),
        prefs \in Optional("user_preferences", ContextValues),
        goals \in Optional("investment_goals", ContextValues),
        profile \in Optional("user_profile", ContextValues)}

LLMServices ==
    {[raised |-> TRUE, error |-> "timeout"],
     [raised |-> FALSE, text |-> "Information Seeking"],
     [raised |-> FALSE, text |-> " Clarification\n"],
     [raised |-> FALSE,
      text |-> "Here are some questions:\n 1. What is your goal?\nWhich funds do you hold today? "]}

\* what a caller of _generate_follow_up_questions may add to the prepared context
PreviousMessages == {<<>>, <<"Tell me about mutual funds">>}

\* what a stub of the imported generate_follow_up_questions returns
TemplateResults ==
    {FollowUpResult(qs, "Template questions", "0.5") :
        qs \in {<<"What is your investment horizon?">>,
                <<"What is your investment horizon?", "Too short?">>,
                <<"What is your investment horizon?", "Tell me about your goals">>,
                <<"What is your goal today?", "Which funds do you hold?",
                  "What is your risk level?", "When do you need the money?">>}}

\* what a stub of _generate_follow_up_questions returns or raises
GenerationOutcomes ==
    {Return(FollowUpResult(<<>>, "No specific follow-up questions generated", "0.5")),
     Return(FollowUpResult(<<"Which funds do you hold today?">>,
                           "LLM-generated follow-up questions", "0.7")),
     Raise("Test error")}

InitTemplate ==
    /\ pc = "start"
    /\ mock_agent_state \in MockAgentStates
    /\ llm_service = Null
    /\ additional_context = Null
    /\ updated_state = Null
    /\ follow_up_context = Null
    /\ template_result = Null
    /\ follow_up_outcome = Null
    /\ backend_calls = Null
    /\ PromptIdle
    /\ ResponseIdle
    /\ ValidationIdle
    /\ DedupeIdle
    /\ StrategyIdle
    /\ ConcurrentIdle

\* follow_up_agent.execute_agent(mock_agent_state)
ExecuteTemplateAgent ==
    /\ pc = "start"
    /\ \E backend \in LLMServices :
          /\ llm_service' = backend
          /\ updated_state' = TemplateFirst_execute_agent(mock_agent_state, backend)
          /\ backend_calls' = ExecuteCalls(mock_agent_state, backend)
    /\ pc' = "returned"
    /\ UNCHANGED <<mock_agent_state, additional_context, follow_up_context, template_result,
                   follow_up_outcome,
                   promptVars, responseVars, validationVars, dedupeVars, strategyVars,
                   concurrentVars>>

\* follow_up_agent._extract_additional_context(mock_agent_state)
ExtractAdditionalContext ==
    /\ pc = "start"
    /\ additional_context' = _extract_additional_context(mock_agent_state)
    /\ pc' = "extracted"
    /\ UNCHANGED <<mock_agent_state, llm_service, updated_state, follow_up_context, template_result,
                   follow_up_outcome, backend_calls, promptVars,
                   responseVars, validationVars, dedupeVars, strategyVars,
                   concurrentVars>>

\* context = follow_up_agent._prepare_follow_up_context(mock_agent_state), with
\* or without a previous_messages entry added by the caller, then
\* follow_up_agent._generate_follow_up_questions(context)
GenerateFollowUpQuestions ==
    /\ pc = "start"
    /\ ~IsNone(mock_agent_state["agent_request"])
    /\ \E backend \in LLMServices, previous \in Optional("previous_messages", PreviousMessages) :
          LET prepared == _prepare_follow_up_context(mock_agent_state, backend)
          IN  /\ llm_service' = backend
              /\ follow_up_context' = previous @@ prepared.value
              /\ template_result' = generate_follow_up_questions(previous @@ prepared.value)
              /\ follow_up_outcome' =
                     _generate_follow_up_questions(previous @@ prepared.value, backend)
              /\ backend_calls' = GenerationCalls(previous @@ prepared.value)
    /\ pc' = "generated"
    /\ UNCHANGED <<mock_agent_state, additional_context, updated_state, promptVars,
                   responseVars, validationVars, dedupeVars, strategyVars,
                   concurrentVars>>

\* the same call while the imported generate_follow_up_questions is patched
\* to return a given batch
GenerateWithPatchedTemplate ==
    /\ pc = "start"
    /\ ~IsNone(mock_agent_state["agent_request"])
    /\ \E backend \in LLMServices, follow_up_result \in TemplateResults :
          LET prepared == _prepare_follow_up_context(mock_agent_state, backend)
          IN  /\ llm_service' = backend
              /\ follow_up_context' = prepared.value
              /\ template_result' = follow_up_result
              /\ follow_up_outcome' = GateAndFallback(follow_up_result, prepared.value, backend)
              /\ backend_calls' = FallbackCalls(follow_up_result, prepared.value)
    /\ pc' = "generated"
    /\ UNCHANGED <<mock_agent_state, additional_context, updated_state, promptVars,
                   responseVars, validationVars, dedupeVars, strategyVars,
                   concurrentVars>>

\* follow_up_agent.execute_agent(mock_agent_state) while
\* _generate_follow_up_questions is patched to return or raise a given outcome
ExecuteWithPatchedGeneration ==
    /\ pc = "start"
    /\ \E backend \in LLMServices, generated \in GenerationOutcomes :
          /\ llm_service' = backend
          /\ follow_up_outcome' = generated
          /\ updated_state' = execute_agent_with_generation(mock_agent_state, backend, generated)
          /\ backend_calls' = IF IsNone(mock_agent_state["agent_request"])
                              THEN <<>> ELSE IntentCalls(mock_agent_state)
    /\ pc' = "patched"
    /\ UNCHANGED <<mock_agent_state, additional_context, follow_up_context, template_result,
                   promptVars,
                   responseVars, validationVars, dedupeVars, strategyVars,
                   concurrentVars>>

NextTemplate ==
    \/ ExecuteTemplateAgent
    \/ ExtractAdditionalContext
    \/ GenerateFollowUpQuestions
    \/ GenerateWithPatchedTemplate
    \/ ExecuteWithPatchedGeneration

SpecTemplate == InitTemplate /\ [][NextTemplate]_vars

(***************************************************************************)
(* SpecConcurrent: two process invocations on one FollowUpAgent built with *)
(* the keyword generator, each on an agent state of its own, interleaved   *)
(* statement by statement.  The invocations share the generator and its    *)
(* keyword_mapping; an invocation's locals are in its frame.  A local name *)
(* for a list is a reference: to a list of its own, or to the list that    *)
(* self.keyword_mapping holds under a keyword.                             *)
(***************************************************************************)
MaxInvocations == 2
Invocations == 1..MaxInvocations

Own(list) == [shared |-> FALSE, keyword |-> "", list |-> list]
Alias(keyword) == [shared |-> TRUE, keyword |-> keyword, list |-> <<>>]
Deref(mapping, ref) == IF ref.shared THEN MappingGet(mapping, ref.keyword) ELSE ref.list

Frame(at, response_text, agent_type, qs, unique_questions) ==
    [at |-> at, response_text |-> response_text, agent_type |-> agent_type,
     questions |-> qs, unique_questions |-> unique_questions]

\* what a statement leaves behind: the shared mapping and the frame
After(mapping, frame) == [keyword_mapping |-> mapping, frame |-> frame]

\* mapping[keyword].extend(more)
MappingExtend(mapping, keyword, more) ==
    [i \in 1..Len(mapping) |->
        IF mapping[i][1] = keyword THEN <<keyword, mapping[i][2] \o more>> ELSE mapping[i]]

\* process: the test on primary_agent_response; then, in generate_questions,
\* response_text, agent_type and questions = []
EnterStatement(mapping, state, frame) ==
    IF "primary_agent_response" \notin DOMAIN state
    THEN After(mapping, [frame EXCEPT !.at = "done"])
    ELSE After(mapping,
               Frame("match_type",
                     Lower(JsonDumpsDict(state["primary_agent_response"], FALSE)),
                     Lower(Get(state, "current_agent_type", "")),
                     Own(<<>>), <<>>))

\* if agent_type in self.keyword_mapping: questions.extend(...)
MatchTypeStatement(mapping, state, frame) ==
    After(mapping,
          [frame EXCEPT !.at = "match_content",
                        !.questions =
                            IF MappingHas(mapping, frame.agent_type)
                            THEN Own(Deref(mapping, frame.questions)
                                     \o MappingGet(mapping, frame.agent_type))
                            ELSE frame.questions])

\* Variant in which questions is the mapping's own list for the agent type
\* and the content matches are appended to it in place.
MatchContentInPlace(mapping, state, frame) ==
    IF MappingHas(mapping, frame.agent_type)
    THEN After(MappingExtend(mapping, frame.agent_type,
                             KeywordMatches(mapping, frame.response_text)),
               [frame EXCEPT !.at = "default", !.questions = Alias(frame.agent_type)])
    ELSE After(mapping,
               [frame EXCEPT !.at = "default",
                             !.questions = Own(KeywordMatches(mapping, frame.response_text))])

\* for keyword, keyword_questions in self.keyword_mapping.items(): ...
MatchContentStatement(mapping, state, frame) ==
    After(mapping,
          [frame EXCEPT !.at = "default",
                        !.questions = Own(Deref(mapping, frame.questions)
                                          \o KeywordMatches(mapping, frame.response_text))])

\* if not questions and "default" in self.keyword_mapping:
\*     questions = self.keyword_mapping["default"]
DefaultStatement(mapping, state, frame) ==
    After(mapping,
          [frame EXCEPT !.at = "unique",
                        !.questions =
                            IF Deref(mapping, frame.questions) = <<>>
                               /\ MappingHas(mapping, "default")
                            THEN Alias("default") ELSE frame.questions])

\* the uniqueness loop over questions
UniqueStatement(mapping, state, frame) ==
    After(mapping,
          [frame EXCEPT !.at = "store",
                        !.unique_questions =
                            UniqueQuestions(Deref(mapping, frame.questions), <<>>)])

\* return unique_questions[:max_questions], and in process
\* agent_state["follow_up_questions"] = follow_up_questions
StoreStatement(state, frame, count) ==
    SetKey(state, "follow_up_questions", SliceTo(frame.unique_questions, count))

ConcurrentStates ==
    {("user_query" :> "How is my portfolio performing?") @@ type @@ response :
        type \in Optional("current_agent_type", {"portfolio", "Tax", "default"}),
        response \in Optional("primary_agent_response", PrimaryResponses)}

KeywordGenerators == {g \in Generators : g.kind = "keyword"}

InitConcurrent ==
    /\ pc = "concurrent"
    /\ given_states \in [Invocations -> ConcurrentStates]
    /\ request_states = given_states
    /\ shared_generator \in KeywordGenerators
    /\ max_questions \in {1, MaxAsked}
    /\ frames = [t \in Invocations |-> Frame("enter", "", "", Own(<<>>), <<>>)]
    /\ agent_state = Null
    /\ generator = Null
    /\ sent_prompt = Null
    /\ handler_response = Null
    /\ process_result = Null
    /\ PromptIdle
    /\ ResponseIdle
    /\ ValidationIdle
    /\ DedupeIdle
    /\ TemplateIdle

\* invocation t executes a statement of the generator and leaves `after`
Statement(t, after) ==
    /\ shared_generator' = [shared_generator EXCEPT !.keyword_mapping = after.keyword_mapping]
    /\ frames' = [frames EXCEPT ![t] = after.frame]
    /\ UNCHANGED <<pc, given_states, request_states, strategyVars, promptVars, responseVars,
                   validationVars, dedupeVars, templateVars>>

Enter(t) ==
    /\ frames[t].at = "enter"
    /\ Statement(t, EnterStatement(shared_generator.keyword_mapping, request_states[t],
                                   frames[t]))

MatchType(t) ==
    /\ frames[t].at = "match_type"
    /\ Statement(t, MatchTypeStatement(shared_generator.keyword_mapping, request_states[t],
                                       frames[t]))

MatchContent(t) ==
    /\ frames[t].at = "match_content"
    /\ Statement(t, MatchContentStatement(shared_generator.keyword_mapping, request_states[t],
                                          frames[t]))

UseDefault(t) ==
    /\ frames[t].at = "default"
    /\ Statement(t, DefaultStatement(shared_generator.keyword_mapping, request_states[t],
                                     frames[t]))

MakeUnique(t) ==
    /\ frames[t].at = "unique"
    /\ Statement(t, UniqueStatement(shared_generator.keyword_mapping, request_states[t],
                                    frames[t]))

Store(t) ==
    /\ frames[t].at = "store"
    /\ request_states' =
           [request_states EXCEPT ![t] = StoreStatement(request_states[t], frames[t],
                                                        max_questions)]
    /\ frames' = [frames EXCEPT ![t].at = "done"]
    /\ UNCHANGED <<pc, given_states, shared_generator, strategyVars, promptVars, responseVars,
                   validationVars, dedupeVars, templateVars>>

NextConcurrent ==
    \E t \in Invocations :
        \/ Enter(t)
        \/ MatchType(t)
        \/ MatchContent(t)
        \/ UseDefault(t)
        \/ MakeUnique(t)
        \/ Store(t)

SpecConcurrent == InitConcurrent /\ [][NextConcurrent]_vars

\* C11: a batch holding a question of 200 characters or more is rejected as
\* too long, also when that question ends with a question mark and the other
\* items are valid.
C11_TooLongRejected ==
    (pc = "validated" /\ \E i \in 1..Len(candidates) : Len(candidates[i]) >= 200) =>
        valid = FALSE

\* C12: a candidate is dropped exactly when its lower-cased, trimmed form
\* equals the lower-cased form of a question in a follow_up_questions field
\* of the history; the others are kept in their original order.
C12_DroppedIffTrimmedFormAsked ==
    pc \in {"filtered", "refiltered"} =>
        filtered_questions =
            SelectSeq(new_questions,
                      LAMBDA question :
                          ~AskedBefore(Strip(question),
                                       PreviousQuestions(conversation_history)))

\* C13: filtering the output of _filter_duplicate_questions again with the
\* same history returns it unchanged.
C13_DedupeIdempotent ==
    pc = "refiltered" => refiltered_questions = filtered_questions

\* the first pass dropped some candidates and kept others
C13_Witness ==
    /\ pc = "refiltered"
    /\ filtered_questions # <<>>
    /\ Len(filtered_questions) < Len(new_questions)
    /\ refiltered_questions = filtered_questions

\* C14: when the backend call fails, process does not raise: it returns the
\* state with questions from the keyword generator, and for a known agent
\* type these are that type's configured questions.
C14_BackendFailureFallsBack ==
    (pc = "processed" /\ process_result.called /\ handler_response.raised) =>
        /\ ~process_result.raised
        /\ "follow_up_questions" \in DOMAIN agent_state
        /\ LET agent_type == Lower(Get(agent_state, "current_agent_type", ""))
           IN  MappingHas(DefaultKeywordMapping, agent_type) =>
                   /\ agent_state["follow_up_questions"] # <<>>
                   /\ Elems(agent_state["follow_up_questions"])
                          \subseteq Elems(MappingGet(DefaultKeywordMapping, agent_type))



\* C15: when the backend text is not the sentinel and no strategy of the
\* parser yields a question, the pipeline ends with an empty question list,
\* no_follow_up_needed false and a message naming the stage that failed
\* (rather than reporting that no follow-up is needed).
C15_NoQuestionsReportsFailedStage ==
    (pc = "executed" /\ given.kind # "sentinel" /\ parsed.questions = <<>>) =>
        /\ agent_response["follow_up_questions"] = <<>>
        /\ ~parsed.no_follow_up_needed
        /\ agent_response["message"] # "No follow-up needed."


C20_ContextIsAllowListed ==
    pc = "extracted" =>
        /\ DOMAIN additional_context =
               {"fund_data", "portfolio_data", "user_preferences", "investment_goals"}
                   \cap DOMAIN mock_agent_state
        /\ \A key \in DOMAIN additional_context :
               additional_context[key] = mock_agent_state[key]

\* one allow-listed attribute present and empty, one present with data, one
\* absent, and an attribute outside the allow-list present
C20_Witness ==
    /\ pc = "extracted"
    /\ "fund_data" \in DOMAIN mock_agent_state
    /\ mock_agent_state["fund_data"] = EmptyDict
    /\ "portfolio_data" \in DOMAIN mock_agent_state
    /\ mock_agent_state["portfolio_data"] # EmptyDict
    /\ "investment_goals" \notin DOMAIN mock_agent_state
    /\ "user_profile" \in DOMAIN mock_agent_state
    /\ DOMAIN additional_context = {"fund_data", "portfolio_data"}


\* C17: the parsers are total: for every response text, whatever its shape,
\* parse_follow_up_response returns a list of questions and raises nothing,
\* and FollowUpResponseParser.parse returns a result with a question list.
C17_ParsersAreTotal ==
    /\ pc # "raised"
    /\ pc = "executed" => parsed.questions \in Seq(STRING)


C21_EmptyJsonStageFallsThrough ==
    pc = "parsed" =>
        LET span == JsonArraySpan(llm_response)
            data == IF span.ok
                    THEN JsonLoads(SubSeq(llm_response, span.from, span.to))
                    ELSE JsonFail
            candidates_of_json ==
                IF data.ok /\ IsList(data.val)
                           /\ \A i \in 1..Len(data.val.v) : IsStr(data.val.v[i])
                THEN StrItems(data.val.v) ELSE <<>>
        IN  candidates_of_json = <<>> => questions = PatternQuestions(llm_response)

\* C22: every item returned by parse_follow_up_response, whatever strategy
\* found it, has its surrounding quotes and whitespace stripped, and no two
\* items of the list are equal.
C22_ReturnedItemsCleanAndDistinct ==
    pc = "parsed" =>
        /\ Distinct(questions)
        /\ \A i \in 1..Len(questions) : questions[i] = CleanQuestion(questions[i])


\* C23: in _generate_follow_up_questions the secondary generator runs if and
\* only if the primary result fails the batch gate (an empty batch, or a
\* batch in which one item fails one rule); a batch that passes is returned
\* as it is and the backend is not called.
C23_FallbackIffGateFails ==
    pc = "generated" =>
        LET passes == _validate_follow_up_questions(template_result.follow_up_questions)
            from_fallback ==
                \/ follow_up_outcome.reasoning = "LLM-generated follow-up questions"
                \/ StartsWith(follow_up_outcome.reasoning, "LLM generation failed: ")
        IN  /\ from_fallback <=> ~passes
            /\ passes => follow_up_outcome = template_result /\ backend_calls = <<>>
            /\ (~passes /\ JsonSerializable(follow_up_context)) =>
                   backend_calls = <<"follow_up_prompt">>

\* a batch of two in which only the second item is too short was rejected
\* whole, and the backend's question lines were returned instead
C23_Witness ==
    /\ pc = "generated"
    /\ Len(template_result.follow_up_questions) = 2
    /\ _validate_follow_up_questions(<<template_result.follow_up_questions[1]>>)
    /\ ~_validate_follow_up_questions(template_result.follow_up_questions)
    /\ backend_calls = <<"follow_up_prompt">>
    /\ follow_up_outcome.follow_up_questions =
           <<"1. What is your goal?", "Which funds do you hold today?">>


\* C24: one execute_agent makes at most one call to the generation backend,
\* and when the state carries no precomputed intent no separate backend call
\* is made to infer it.
C24_NoSeparateIntentCall ==
    pc = "returned" =>
        /\ Len(backend_calls) <= 1
        /\ "intent" \notin DOMAIN mock_agent_state["agent_response"] =>
               "intent_prompt" \notin Elems(backend_calls)

FollowUpFields == {"follow_up_questions", "follow_up_reasoning", "follow_up_confidence"}

\* C28: the context built by _prepare_follow_up_context has no
\* previous_messages key, so for every state with a request the template
\* stage returns the one fixed question with confidence 0.5, the gate
\* passes, execute_agent stores that result and the fallback prompt is never
\* sent to the backend.
C28_TemplateStageAlwaysWins ==
    (pc = "returned" /\ ~IsNone(mock_agent_state["agent_request"])) =>
        LET context == _prepare_follow_up_context(mock_agent_state, llm_service).value
            follow_up_result == generate_follow_up_questions(context)
        IN  /\ "previous_messages" \notin DOMAIN context
            /\ follow_up_result =
                   FollowUpResult(<<"Could you provide more context about your current situation?">>,
                                  "Initial conversation requires more context", "0.5")
            /\ _validate_follow_up_questions(follow_up_result.follow_up_questions)
            /\ updated_state.value["follow_up_questions"] = follow_up_result.follow_up_questions
            /\ updated_state.value["follow_up_reasoning"] = follow_up_result.reasoning
            /\ updated_state.value["follow_up_confidence"] = "0.5"
            /\ "follow_up_prompt" \notin Elems(backend_calls)

\* a request with earlier messages on a state that held the questions of an
\* earlier turn: the fixed question replaced them and the only backend call
\* was the intent inference
C28_Witness ==
    /\ pc = "returned"
    /\ ~IsNone(mock_agent_state["agent_request"])
    /\ mock_agent_state["agent_request"].messages # <<>>
    /\ "follow_up_questions" \in DOMAIN mock_agent_state
    /\ updated_state.value["follow_up_questions"] =
           <<"Could you provide more context about your current situation?">>
    /\ backend_calls = <<"intent_prompt">>

\* C29: execute_agent writes follow_up_questions, follow_up_reasoning and
\* follow_up_confidence together, from one generation result, and only when
\* that result's question list is non-empty; when the list is empty or the
\* generation raised, each of the three is as it was before the call, absent
\* or holding the earlier value.
C29_FieldsWrittenTogetherOrNotAtAll ==
    (pc \in {"returned", "patched"} /\ ~IsNone(mock_agent_state["agent_request"])) =>
        LET generated == IF pc = "patched" THEN follow_up_outcome
                         ELSE Return(generate_follow_up_questions(
                                  _prepare_follow_up_context(mock_agent_state, llm_service).value))
            after == updated_state.value
        IN  IF ~generated.raised /\ generated.value.follow_up_questions # <<>>
            THEN /\ FollowUpFields \subseteq DOMAIN after
                 /\ after["follow_up_questions"] = generated.value.follow_up_questions
                 /\ after["follow_up_reasoning"] = generated.value.reasoning
                 /\ after["follow_up_confidence"] = generated.value.confidence_score
            ELSE \A field \in FollowUpFields :
                    /\ field \in DOMAIN after <=> field \in DOMAIN mock_agent_state
                    /\ field \in DOMAIN after => after[field] = mock_agent_state[field]

\* the generation returned an empty list on a state that held the three
\* fields of an earlier invocation, and they are still there
C29_Witness ==
    /\ pc = "patched"
    /\ ~IsNone(mock_agent_state["agent_request"])
    /\ ~follow_up_outcome.raised
    /\ follow_up_outcome.value.follow_up_questions = <<>>
    /\ "error" \notin DOMAIN updated_state.value
    /\ "follow_up_questions" \in DOMAIN updated_state.value
    /\ updated_state.value["follow_up_questions"] = <<"What is your investment horizon?">>
    /\ updated_state.value["follow_up_confidence"] = "0.7"


\* C25: budget enforcement removes history only: whenever the static section
\* and the trailing section (query heading, query, instructions) fit within
\* MAX_PROMPT_CHARS together, the prompt ends with the complete trailing
\* section for every history length, and when no room is left for history
\* the prompt is the static section followed by the trailing section.
C25_OnlyHistoryIsRemoved ==
    (pc = "built" /\ Len(StaticPrompt(system_text)) + Len(TailPrompt(agent_request.query))
                        <= MAX_PROMPT_CHARS) =>
        /\ EndsWith(prompt, TailPrompt(agent_request.query))
        /\ Available - Len(TailPrompt(agent_request.query)) <= 0 =>
               prompt = StaticPrompt(system_text) \o TailPrompt(agent_request.query)


\* C26: FollowUpAgent.process returns the state as it was and calls no
\* generator when the state has no primary_agent_response; otherwise it
\* calls the generator strategy once, with the state, the primary response
\* and the configured max_questions, stores the list the generator returned
\* under follow_up_questions and leaves every other key as it was.
C26_ProcessFrame ==
    [][(pc = "start" /\ pc' = "processed" /\ ~process_result'.raised) =>
          IF "primary_agent_response" \notin DOMAIN agent_state
          THEN /\ agent_state' = agent_state
               /\ process_result'.generator_calls = <<>>
               /\ ~process_result'.called
          ELSE /\ process_result'.generator_calls =
                      <<GeneratorCall(agent_state, agent_state["primary_agent_response"],
                                      max_questions)>>
               /\ DOMAIN agent_state' = DOMAIN agent_state \cup {"follow_up_questions"}
               /\ \A key \in DOMAIN agent_state \ {"follow_up_questions"} :
                      agent_state'[key] = agent_state[key]
               /\ agent_state'["follow_up_questions"] =
                      Generate(agent_state, generator, agent_state["primary_agent_response"],
                               max_questions,
                               IF generator.kind = "llm" THEN handler_response'
                               ELSE [raised |-> TRUE]).questions
               /\ generator.kind = "mock" =>
                      agent_state'["follow_up_questions"] = generator.return_value
    ]_vars

\* the mock generator of test_process_method was called once with
\* max_questions 0 and its two questions were stored as they were, next to
\* the user profile the state already held
C26_Witness ==
    /\ pc = "processed"
    /\ generator.kind = "mock"
    /\ max_questions = 0
    /\ Len(process_result.generator_calls) = 1
    /\ process_result.generator_calls[1].max_questions = 0
    /\ "user_profile" \in DOMAIN process_result.generator_calls[1].agent_state
    /\ "follow_up_questions" \notin DOMAIN process_result.generator_calls[1].agent_state
    /\ agent_state =
           SetKey(process_result.generator_calls[1].agent_state, "follow_up_questions",
                  <<"Follow-up question 1?", "Follow-up question 2?">>)


\* C30: LLMBasedFollowUpGenerator.generate_questions parses, then filters
\* against the history, then cuts: its result is the first max_questions
\* elements of the deduplicated candidate list, so a filtered question
\* never uses up one of the max_questions places.
C30_ParseFilterThenCap ==
    (pc = "processed" /\ process_result.called /\ ~process_result.raised) =>
        LET state == process_result.generator_calls[1].agent_state
            deduplicated ==
                _filter_duplicate_questions(parse_follow_up_response(handler_response.text),
                                            Get(state, "conversation_history", <<>>))
            returned == agent_state["follow_up_questions"]
        IN  /\ Len(returned) = Min(max_questions, Len(deduplicated))
            /\ \A i \in 1..Len(returned) : returned[i] = deduplicated[i]

\* five candidates of which the first was asked before, and room for four:
\* the four new ones were all returned
C30_Witness ==
    /\ pc = "processed"
    /\ process_result.called
    /\ ~process_result.raised
    /\ max_questions = 4
    /\ parse_follow_up_response(handler_response.text) =
           <<"Already asked?", "New question?", "Another one?", "One more?", "Last one?">>
    /\ agent_state["conversation_history"] # <<>>
    /\ agent_state["follow_up_questions"] =
           <<"New question?", "Another one?", "One more?", "Last one?">>


====
